---- MODULE Spec2Model ----
(***************************************************************************)
(* Media server API: the qBittorrent session client (QBittorrentService),  *)
(* the download organizer (organizeDownloads) and the background monitor   *)
(* (checkForCompletedTorrents), modelled at the granularity of the awaits  *)
(* on network and filesystem calls.                                        *)
(***************************************************************************)
EXTENDS Integers, Sequences, FiniteSets, TLC

\* ---------------------------------------------------------------- bounds
NumCallers == 1      \* concurrent foreground requests using the service
NumTicks == 2        \* timer activations of the monitor that may overlap
NumSids == 3         \* session ids the daemon hands out (recycled when unreferenced)
MaxAddReqs == 3      \* add requests followed within one addTorrent call
MaxExpire == 2       \* server-side session invalidations followed in one behaviour
NumHashes == 2       \* torrents known to the daemon
MaxShort == 3        \* results of a Jackett answer drawn from every kind of result
MaxLong == 11        \* results of a Jackett answer drawn from the popular kinds
MaxParts == 4        \* parts a name given to cleanName is made of
MaxFolderParts == 2  \* parts the name of a downloaded folder is made of

NULL == 0            \* this.sessionId = null

Callers == {<<"call", i>> : i \in 1..NumCallers}
Ticks == {<<"tick", i>> : i \in 1..NumTicks}
Procs == Callers \cup Ticks
Sids == 1..NumSids
Hashes == 1..NumHashes

VARIABLES
    sessionId,            \* QBittorrentService.sessionId
    validSids,            \* daemon: sessions it currently accepts
    netFaults,            \* whether requests to the daemon may fail (refused, timed out, 5xx)
    credsValid,           \* daemon: accepts the configured username/password
    expireBudget,         \* daemon: remaining server-side invalidations
    op,                   \* per activation: the operation it is running
    pc,                   \* per activation: the await it is suspended at
    sentSid,              \* per activation: SID cookie of its last add/list/logout request
    lastResp,             \* per activation: answer to its last add/list request
    addReqs,              \* per activation: requests sent to /torrents/add
    loginReqs,            \* per activation: requests sent to /auth/login
    listReqs,             \* per activation: requests sent to /torrents/info
    result,               \* per activation: what the caller received
    organizationRunning,  \* let organizationRunning
    processedTorrents,    \* const processedTorrents = new Set()
    torrents,             \* daemon: state of each torrent
    jellyfinService,      \* whether the JellyfinService was constructed
    selected,             \* per activation: newCompletedTorrents of its run
    organizeCalls,        \* per activation: invocations of organizeDownloads in its run
    scanReqs,             \* per activation: scanLibraries requests in its run
    lastTick,             \* what the last timer tick did
    lastFetchSid,         \* SID of the monitor's last list request if it was answered 200
    dlRootOk,             \* fs.access('/app/downloads') succeeds
    mvRootOk,             \* fs.access('/app/movies') succeeds
    downloads,            \* '/app/downloads': state of each top-level folder
    movies,               \* '/app/movies': the entries and what was copied into them
    folders,              \* per organize run: the folders it read, in order
    idx,                  \* per organize run: position in folders
    organized,            \* per organize run: its organized array
    errors,               \* per organize run: its errors array
    jackettApiKey,        \* JACKETT_API_KEY is configured
    response,             \* searchJackett: what the request to Jackett gets
    searchPc,             \* searchJackett: where the call is
    ranked,               \* searchJackett: the array it returned
    rankedFrom,           \* for each element of ranked, its position in Results
    given,                \* the name cleanName is applied to
    cleaned,              \* cleanName of given, cleanName of that, ...
    observedDone,         \* hashes a fetched listing showed with progress 1
    actedUpon,            \* hashes selected by a run that went on to call organizeDownloads
    req,                  \* the HTTP request being served: route, passwords, parameter
    apiPc,                \* where the serving of req is
    status,               \* the HTTP status answered to req, 0 before the answer
    coreCalls,            \* the core operations the handler of req has called, in order
    handed,               \* what the handler of req passed to addTorrent
    wouldDownload,        \* wouldDownload.result of the answer to POST /search, <<>> for null
    qbittorrentService,   \* the QBittorrentService was constructed at start
    ranBefore,            \* a call of organizeDownloads by POST /organize has ended
    refused,              \* folders whose copy failed in such a call leaving nothing behind
    rerun,                \* per call by POST /organize: it began after one had ended
    scenario              \* per activation: it is an addTorrent call that found a stored
                          \* session id the daemon had dropped, with valid credentials, and
                          \* since then no request failed otherwise and nothing else happened

svars == <<sessionId, validSids, netFaults, credsValid, expireBudget>>
pvars == <<op, pc, sentSid, lastResp, addReqs, loginReqs, listReqs, result>>
rvars == <<organizationRunning, processedTorrents, torrents, jellyfinService,
           selected, organizeCalls, scanReqs, lastTick, lastFetchSid>>
fvars == <<dlRootOk, mvRootOk, downloads, movies, folders, idx, organized, errors>>
qvars == <<jackettApiKey, response, searchPc, ranked, rankedFrom>>
nvars == <<given, cleaned>>
hvars == <<observedDone, actedUpon, ranBefore, refused, rerun>>
avars == <<req, apiPc, status, coreCalls, handed, wouldDownload, qbittorrentService>>
vars == <<svars, pvars, rvars, fvars, scenario, qvars, nvars, hvars, avars>>

\* ------------------------------------------------------- the daemon side
\* The SID of a new session: one nobody holds or has in flight.
Referenced == {sessionId, lastFetchSid} \cup {sentSid[p] : p \in Procs}
FreshSids == Sids \ (validSids \cup Referenced)

\* The answers the login request may get: a SID cookie, or a failure
\* (refused, timed out, error status, no SID cookie).
LoginAnswers == (IF credsValid THEN {"ok"} ELSE {"err"}) \cup (IF netFaults THEN {"err"} ELSE {})

\* The answers a request carrying the cookie SID=sid may get: 200 when the
\* daemon knows the session and 401/403 when it does not, or another failure.
Answers(sid) == (IF sid \in validSids THEN {"ok"} ELSE {"auth"}) \cup (IF netFaults THEN {"err"} ELSE {})

\* _isAuthError taking every failed request for an authentication error.
IsAuthError_AnyFailure(resp) == resp # "ok"

\* _isAuthError: error.response && status in {401, 403}
IsAuthError(resp) == resp = "auth"

\* ------------------------------------------------- QBittorrentService
\* axios.post(/api/v2/auth/login) is sent; the activation awaits the answer.
SendLogin(p) ==
    /\ pc' = [pc EXCEPT ![p] = "login"]
    /\ loginReqs' = [loginReqs EXCEPT ![p] = @ + 1]
    /\ UNCHANGED <<sentSid, addReqs, listReqs>>

\* axios.post(/torrents/add) or axios.get(/torrents/info) is sent with
\* Cookie: SID=${this.sessionId}
SendReq(p, kind, sid) ==
    /\ pc' = [pc EXCEPT ![p] = kind]
    /\ sentSid' = [sentSid EXCEPT ![p] = sid]
    /\ lastResp' = [lastResp EXCEPT ![p] = "none"]
    /\ addReqs' = [addReqs EXCEPT ![p] = IF kind = "add" THEN @ + 1 ELSE @]
    /\ listReqs' = [listReqs EXCEPT ![p] = IF kind = "list" THEN @ + 1 ELSE @]
    /\ UNCHANGED loginReqs

\* EnsureSessionThen with a stored session id tried on the daemon first.
EnsureSessionThen_Validate(p, kind) ==
    IF sessionId = NULL \/ sessionId \notin validSids
    THEN /\ SendLogin(p)
         /\ UNCHANGED lastResp
    ELSE /\ kind = "add" => addReqs[p] < MaxAddReqs
         /\ SendReq(p, kind, sessionId)

\* EnsureSessionThen without the login of ensureSession: the request goes out
\* with this.sessionId as it is.
EnsureSessionThen_NoLogin(p, kind) ==
    /\ kind = "add" => addReqs[p] < MaxAddReqs
    /\ SendReq(p, kind, sessionId)

\* ensureSession() followed by the request of the calling method:
\* login first when no session id is stored, else use the stored one as is.
EnsureSessionThen(p, kind) ==
    IF sessionId = NULL
    THEN /\ SendLogin(p)
         /\ UNCHANGED lastResp
    ELSE /\ kind = "add" => addReqs[p] < MaxAddReqs
         /\ SendReq(p, kind, sessionId)

\* The request the method running in p sends once it has a session.
ReqKind(p) == IF op[p] = "addTorrent" THEN "add" ELSE "list"

\* A method is called in activation p.
StartCall(p, o) ==
    /\ op' = [op EXCEPT ![p] = o]
    /\ result' = [result EXCEPT ![p] = "none"]

\* A method call ends: the caller gets r.
Finish(p, r) ==
    /\ pc' = [pc EXCEPT ![p] = "done"]
    /\ result' = [result EXCEPT ![p] = r]
    /\ sentSid' = [sentSid EXCEPT ![p] = NULL]

\* addTorrent(magnetOrUrl): ensureSession, then the add request.
AddTorrentCall(c) ==
    /\ pc[c] = "idle"
    /\ StartCall(c, "addTorrent")
    /\ EnsureSessionThen(c, "add")
    /\ UNCHANGED <<svars, rvars, fvars>>

\* getTorrents(filters) called by GET /torrents: ensureSession, then the list request.
GetTorrentsCall(c) ==
    /\ pc[c] = "idle"
    /\ StartCall(c, "getTorrents")
    /\ EnsureSessionThen(c, "list")
    /\ UNCHANGED <<svars, rvars, fvars>>

\* logout(): nothing without a session id, else the logout request.
LogoutCall(c) ==
    /\ pc[c] = "idle"
    /\ op' = [op EXCEPT ![c] = "logout"]
    /\ IF sessionId = NULL
       THEN /\ Finish(c, "ok")
            /\ UNCHANGED lastResp
       ELSE /\ pc' = [pc EXCEPT ![c] = "logout"]
            /\ result' = [result EXCEPT ![c] = "none"]
            /\ sentSid' = [sentSid EXCEPT ![c] = sessionId]
            /\ lastResp' = [lastResp EXCEPT ![c] = "none"]
    /\ UNCHANGED <<svars, addReqs, loginReqs, listReqs, rvars, fvars>>

\* LogoutResponse with the assignment in the try block instead of finally.
LogoutResponse_KeepOnFailure(c) ==
    /\ pc[c] = "logout"
    /\ \E resp \in Answers(sentSid[c]) :
          /\ validSids' = IF resp = "ok" THEN validSids \ {sentSid[c]} ELSE validSids
          /\ sessionId' = IF resp = "ok" THEN NULL ELSE sessionId
    /\ Finish(c, "ok")
    /\ UNCHANGED <<netFaults, credsValid, expireBudget, op, lastResp,
                   addReqs, loginReqs, listReqs, rvars, fvars>>

\* The logout request is answered or fails; finally: this.sessionId = null.
LogoutResponse(c) ==
    /\ pc[c] = "logout"
    /\ \E resp \in Answers(sentSid[c]) :
          validSids' = IF resp = "ok" THEN validSids \ {sentSid[c]} ELSE validSids
    /\ sessionId' = NULL
    /\ Finish(c, "ok")
    /\ UNCHANGED <<netFaults, credsValid, expireBudget, op, lastResp,
                   addReqs, loginReqs, listReqs, rvars, fvars>>

\* AddAuthRetry with the assignment this.sessionId = null left out.
AddAuthRetry_KeepSession(c) ==
    /\ addReqs[c] < MaxAddReqs
    /\ pc' = [pc EXCEPT ![c] = "add"]
    /\ sentSid' = [sentSid EXCEPT ![c] = sessionId]
    /\ addReqs' = [addReqs EXCEPT ![c] = @ + 1]
    /\ UNCHANGED <<sessionId, result, loginReqs, listReqs>>

\* addTorrent's catch block for a 401/403: forget the session id and call
\* addTorrent again, which finds no session id and logs in.
AddAuthRetry(c) ==
    /\ sessionId' = NULL
    /\ SendLogin(c)
    /\ UNCHANGED result

\* The add request is answered: 200 returns the success object; a 401/403
\* goes through AddAuthRetry; any other failure is thrown to the caller.
AddResponse(c) ==
    /\ pc[c] = "add"
    /\ \E resp \in Answers(sentSid[c]) :
       IF resp = "ok"
       THEN /\ Finish(c, "ok")
            /\ lastResp' = [lastResp EXCEPT ![c] = resp]
            /\ UNCHANGED <<sessionId, addReqs, loginReqs, listReqs>>
       ELSE IF IsAuthError(resp)
       THEN /\ AddAuthRetry(c)
            /\ lastResp' = [lastResp EXCEPT ![c] = resp]
       ELSE /\ Finish(c, "error")
            /\ lastResp' = [lastResp EXCEPT ![c] = resp]
            /\ UNCHANGED <<sessionId, addReqs, loginReqs, listReqs>>
    /\ UNCHANGED <<validSids, netFaults, credsValid, expireBudget, op, rvars, fvars>>

\* LoginSucceeds returning the SID without assigning this.sessionId.
LoginSucceeds_NotStored(p) ==
    /\ "ok" \in LoginAnswers
    /\ \E sid \in FreshSids :
          /\ sessionId' = sessionId
          /\ validSids' = validSids \cup {sid}
          /\ ReqKind(p) = "add" => addReqs[p] < MaxAddReqs
          /\ SendReq(p, ReqKind(p), sid)
    /\ UNCHANGED <<netFaults, credsValid, expireBudget, op, result>>

\* login() succeeds: the SID cookie of the answer is stored in this.sessionId,
\* ensureSession returns and the calling method sends its request with it.
LoginSucceeds(p) ==
    /\ "ok" \in LoginAnswers
    /\ \E sid \in FreshSids :
          /\ sessionId' = sid
          /\ validSids' = validSids \cup {sid}
          /\ ReqKind(p) = "add" => addReqs[p] < MaxAddReqs
          /\ SendReq(p, ReqKind(p), sid)
    /\ UNCHANGED <<netFaults, credsValid, expireBudget, op, result>>

\* login() fails (daemon unreachable, timeout, credentials rejected, no SID
\* cookie): it throws, and so do ensureSession and the method that called it.
LoginFails == "err" \in LoginAnswers

\* LoginResponse with the failure of login() swallowed by ensureSession: the
\* method goes on to its request with whatever session id is stored.
LoginResponse_SwallowsFailure(c) ==
    /\ pc[c] = "login"
    /\ \/ LoginSucceeds(c)
       \/ /\ LoginFails
          /\ ReqKind(c) = "add" => addReqs[c] < MaxAddReqs
          /\ pc' = [pc EXCEPT ![c] = ReqKind(c)]
          /\ sentSid' = [sentSid EXCEPT ![c] = sessionId]
          /\ addReqs' = [addReqs EXCEPT ![c] = IF ReqKind(c) = "add" THEN @ + 1 ELSE @]
          /\ listReqs' = [listReqs EXCEPT ![c] = IF ReqKind(c) = "list" THEN @ + 1 ELSE @]
          /\ lastResp' = [lastResp EXCEPT ![c] = "err"]
          /\ UNCHANGED <<svars, op, loginReqs, result>>
    /\ UNCHANGED <<rvars, fvars>>

\* The login request of a foreground call is answered.
LoginResponse(c) ==
    /\ pc[c] = "login"
    /\ \/ LoginSucceeds(c)
       \/ /\ LoginFails
          /\ Finish(c, "error")
          /\ lastResp' = [lastResp EXCEPT ![c] = "err"]
          /\ UNCHANGED <<svars, op, addReqs, loginReqs, listReqs>>
    /\ UNCHANGED <<rvars, fvars>>

\* ListResponse with addTorrent's catch block: a 401/403 forgets the session
\* id and logs in again.
ListResponse_AuthRetry(c) ==
    /\ pc[c] = "list"
    /\ \E resp \in Answers(sentSid[c]) :
          /\ lastResp' = [lastResp EXCEPT ![c] = resp]
          /\ IF IsAuthError(resp)
             THEN /\ sessionId' = NULL
                  /\ SendLogin(c)
                  /\ UNCHANGED result
             ELSE /\ Finish(c, IF resp = "ok" THEN "ok" ELSE "error")
                  /\ UNCHANGED <<sessionId, addReqs, loginReqs, listReqs>>
    /\ UNCHANGED <<validSids, netFaults, credsValid, expireBudget, op, rvars, fvars>>

\* The list request of a foreground getTorrents is answered: the data is
\* returned, or the failure is thrown whatever its status.
ListResponse(c) ==
    /\ pc[c] = "list"
    /\ \E resp \in Answers(sentSid[c]) :
          /\ lastResp' = [lastResp EXCEPT ![c] = resp]
          /\ Finish(c, IF resp = "ok" THEN "ok" ELSE "error")
    /\ UNCHANGED <<svars, op, addReqs, loginReqs, listReqs, rvars, fvars>>

\* The route handler has answered its request; the slot serves the next one.
CallReturn(c) ==
    /\ pc[c] = "done"
    /\ op' = [op EXCEPT ![c] = "idle"]
    /\ pc' = [pc EXCEPT ![c] = "idle"]
    /\ result' = [result EXCEPT ![c] = "none"]
    /\ lastResp' = [lastResp EXCEPT ![c] = "none"]
    /\ addReqs' = [addReqs EXCEPT ![c] = 0]
    /\ loginReqs' = [loginReqs EXCEPT ![c] = 0]
    /\ listReqs' = [listReqs EXCEPT ![c] = 0]
    /\ folders' = [folders EXCEPT ![c] = <<>>]
    /\ idx' = [idx EXCEPT ![c] = 0]
    /\ organized' = [organized EXCEPT ![c] = <<>>]
    /\ errors' = [errors EXCEPT ![c] = <<>>]
    /\ UNCHANGED <<svars, sentSid, rvars, dlRootOk, mvRootOk, downloads, movies>>

\* ------------------------------------------------------ the environment
\* The daemon drops a session (timeout, restart).
DaemonExpire ==
    /\ \E sid \in validSids : validSids' = validSids \ {sid}
    /\ UNCHANGED <<sessionId, netFaults, credsValid, expireBudget, pvars, rvars, fvars>>

\* The same, in behaviours where the daemon does so finitely often.
DaemonExpireSome ==
    /\ expireBudget > 0
    /\ \E sid \in validSids : validSids' = validSids \ {sid}
    /\ expireBudget' = expireBudget - 1
    /\ UNCHANGED <<sessionId, netFaults, credsValid, pvars, rvars, fvars>>

\* -------------------------------------------------- folder names
\* A name is a sequence of one-character strings.
Whitespace == {" ", "\t"}
Brackets == {"[", "]", "(", ")"}
Separators == {".", "_", "-"}

\* the /i flag on the letters of the three extensions
Lower(ch) ==
    CASE ch = "M" -> "m" [] ch = "K" -> "k" [] ch = "V" -> "v"
      [] ch = "P" -> "p" [] ch = "A" -> "a" [] ch = "I" -> "i"
      [] OTHER -> ch

\* .replace(/\.(mkv|mp4|avi)$/i, '')
StripVideoExt(s) ==
    LET n == Len(s) IN
    IF /\ n >= 4
       /\ s[n - 3] = "."
       /\ <<Lower(s[n - 2]), Lower(s[n - 1]), Lower(s[n])>>
             \in {<<"m", "k", "v">>, <<"m", "p", "4">>, <<"a", "v", "i">>}
    THEN SubSeq(s, 1, n - 4)
    ELSE s

\* .replace(/[\[\]()]/g, '')
RemoveBrackets(s) == SelectSeq(s, LAMBDA ch : ch \notin Brackets)

RECURSIVE DropWhile(_, _)
DropWhile(s, class) ==
    IF s # <<>> /\ Head(s) \in class THEN DropWhile(Tail(s), class) ELSE s

\* .replace(/[class]+/g, ' '): every maximal run becomes one space
RECURSIVE CollapseRuns(_, _)
CollapseRuns(s, class) ==
    IF s = <<>> THEN <<>>
    ELSE IF Head(s) \in class
         THEN <<" ">> \o CollapseRuns(DropWhile(Tail(s), class), class)
         ELSE <<Head(s)>> \o CollapseRuns(Tail(s), class)

RECURSIVE DropTrailing(_, _)
DropTrailing(s, class) ==
    IF s # <<>> /\ s[Len(s)] \in class
    THEN DropTrailing(SubSeq(s, 1, Len(s) - 1), class)
    ELSE s

\* Trim taking off the trailing whitespace only.
Trim_TrailingOnly(s) == DropTrailing(s, Whitespace)

\* .trim()
Trim(s) == DropTrailing(DropWhile(s, Whitespace), Whitespace)

\* CleanName with the third and the fourth replace exchanged.
CleanName_WhitespaceFirst(name) ==
    Trim(CollapseRuns(CollapseRuns(RemoveBrackets(StripVideoExt(name)), Whitespace),
                      Separators))

\* const cleanName = folder.name.replace(...).replace(...).replace(...).replace(...).trim()
CleanName(name) ==
    Trim(CollapseRuns(CollapseRuns(RemoveBrackets(StripVideoExt(name)), Separators),
                      Whitespace))

\* The folder names the downloads directory may hold.
FolderNames ==
    { <<"a", ".", "b">>,          \* cleans to "a b"
      <<"a", "_", "b">>,          \* cleans to "a b" as well
      <<"[", "-", "]">> }         \* cleans to the empty name

\* The folder of /app/downloads the daemon saves torrent h into, from the
\* start of the download on.
FolderOf(h) ==
    LET inOrder == << <<"a", ".", "b">>, <<"a", "_", "b">>, <<"[", "-", "]">> >>
    IN  inOrder[((h - 1) % 3) + 1]

\* Names of entries of the movies directory.
DestNames == {CleanName(n) : n \in FolderNames}

\* The names cleanName is given: up to k parts, each a character of one of
\* the classes the expressions distinguish, or a video extension.
NameParts ==
    { <<"a">>, <<".">>, <<"_">>, <<"-">>, <<"[">>, <<")">>, <<" ">>, <<"\t">>,
      <<".", "m", "K", "v">> }

RECURSIVE Flatten(_)
Flatten(parts) == IF parts = <<>> THEN <<>> ELSE Head(parts) \o Flatten(Tail(parts))

Names(k) == {Flatten(parts) : parts \in UNION {[1..n -> NameParts] : n \in 0..k}}

\* a release folder, named like the one of the README's organize example
MovieFolder ==
    << "M", "o", "v", "i", "e", ".", "2", "0", "1", "0", ".", "1",
       "0", "8", "0", "p", ".", "B", "l", "u", "R", "a", "y", "-",
       "G", "R", "O", "U", "P" >>

\* The single folder a downloads directory may hold at start: readdir lists
\* no entry with the empty name, '.' or '..'.
DownloadedNames ==
    (Names(MaxFolderParts) \ {<<>>, <<".">>, <<".", ".">>}) \cup {MovieFolder}

\* An entry of the movies directory that was there before.
NamedLibraryEntries == {<< <<"a">>, <<"lib">>, "full" >>}

\* ------------------------------------------------------ the filesystem
\* DestExists that takes a destination for free unless a whole copy is in it.
DestExists_CompleteOnly(d) == d = <<>> \/ \E e \in movies : e[1] = d /\ e[3] = "full"

\* DestExists that finds only what is inside the movies directory.
DestExists_EntriesOnly(d) == \E e \in movies : e[1] = d

\* fs.access(destPath): path.join(moviesDir, '') is the movies directory itself.
DestExists(d) == d = <<>> \/ \E e \in movies : e[1] = d

\* The orders in which readdir may list the folders of S.
Orders(S) == {f \in [1..Cardinality(S) -> S] : \A i, j \in 1..Cardinality(S) : f[i] = f[j] => i = j}

\* PresentFolders without the filter on item.isDirectory().
PresentFolders_EveryItem == {n \in DOMAIN downloads : downloads[n] # "absent"}

\* The top-level directories of the downloads directory:
\* downloadItems.filter((item) => item.isDirectory())
PresentFolders == {n \in DOMAIN downloads : downloads[n] \notin {"absent", "file"}}

\* ------------------------------------------- continuations of a run
\* The run of p stays suspended, at the await npc.
Stay(p, npc, nfolders, nidx, org, errs) ==
    /\ pc' = [pc EXCEPT ![p] = npc]
    /\ folders' = [folders EXCEPT ![p] = nfolders]
    /\ idx' = [idx EXCEPT ![p] = nidx]
    /\ organized' = [organized EXCEPT ![p] = org]
    /\ errors' = [errors EXCEPT ![p] = errs]
    /\ UNCHANGED <<op, sentSid, lastResp, addReqs, loginReqs, listReqs, result,
                   organizationRunning, selected, organizeCalls, scanReqs, lastTick>>

\* TickEnd with the guard cleared as the last statement of the try block
\* instead of in a finally block.
TickEnd_NoFinally(t, outcome) ==
    /\ organizationRunning' =
          IF outcome \in {"fetch_failed", "organize_threw"} THEN organizationRunning ELSE FALSE
    /\ lastTick' = outcome
    /\ op' = [op EXCEPT ![t] = "idle"]
    /\ pc' = [pc EXCEPT ![t] = "idle"]
    /\ sentSid' = [sentSid EXCEPT ![t] = NULL]
    /\ lastResp' = [lastResp EXCEPT ![t] = "none"]
    /\ loginReqs' = [loginReqs EXCEPT ![t] = 0]
    /\ listReqs' = [listReqs EXCEPT ![t] = 0]
    /\ selected' = [selected EXCEPT ![t] = {}]
    /\ organizeCalls' = [organizeCalls EXCEPT ![t] = 0]
    /\ scanReqs' = [scanReqs EXCEPT ![t] = 0]
    /\ folders' = [folders EXCEPT ![t] = <<>>]
    /\ idx' = [idx EXCEPT ![t] = 0]
    /\ organized' = [organized EXCEPT ![t] = <<>>]
    /\ errors' = [errors EXCEPT ![t] = <<>>]
    /\ UNCHANGED <<addReqs, result>>

\* checkForCompletedTorrents leaves its try statement: the finally block
\* clears the guard and the activation is over.
TickEnd(t, outcome) ==
    /\ organizationRunning' = FALSE
    /\ lastTick' = outcome
    /\ op' = [op EXCEPT ![t] = "idle"]
    /\ pc' = [pc EXCEPT ![t] = "idle"]
    /\ sentSid' = [sentSid EXCEPT ![t] = NULL]
    /\ lastResp' = [lastResp EXCEPT ![t] = "none"]
    /\ loginReqs' = [loginReqs EXCEPT ![t] = 0]
    /\ listReqs' = [listReqs EXCEPT ![t] = 0]
    /\ selected' = [selected EXCEPT ![t] = {}]
    /\ organizeCalls' = [organizeCalls EXCEPT ![t] = 0]
    /\ scanReqs' = [scanReqs EXCEPT ![t] = 0]
    /\ folders' = [folders EXCEPT ![t] = <<>>]
    /\ idx' = [idx EXCEPT ![t] = 0]
    /\ organized' = [organized EXCEPT ![t] = <<>>]
    /\ errors' = [errors EXCEPT ![t] = <<>>]
    /\ UNCHANGED <<addReqs, result>>

\* A foreground call of organizeDownloads ends with r.
OrganizeEnd(c, r, org, errs) ==
    /\ Finish(c, r)
    /\ organized' = [organized EXCEPT ![c] = org]
    /\ errors' = [errors EXCEPT ![c] = errs]
    /\ UNCHANGED <<op, lastResp, addReqs, loginReqs, listReqs, folders, idx,
                   organizationRunning, selected, organizeCalls, scanReqs, lastTick>>

\* The monitor asks for a library scan: await jellyfinService.scanLibraries()
StartScan(t, org, errs) ==
    /\ scanReqs' = [scanReqs EXCEPT ![t] = @ + 1]
    /\ pc' = [pc EXCEPT ![t] = "scan"]
    /\ organized' = [organized EXCEPT ![t] = org]
    /\ errors' = [errors EXCEPT ![t] = errs]
    /\ UNCHANGED <<op, sentSid, lastResp, addReqs, loginReqs, listReqs, result, folders, idx,
                   organizationRunning, selected, organizeCalls, lastTick>>

\* OrganizeReturns with the scan asked for whatever was organized.
OrganizeReturns_ScanAlways(p, org, errs) ==
    IF p \in Ticks
    THEN IF jellyfinService
         THEN StartScan(p, org, errs)
         ELSE TickEnd(p, IF Len(org) > 0 THEN "organized" ELSE "nothing_organized")
    ELSE OrganizeEnd(p, "ok", org, errs)

\* organizeDownloads returns { organized, errors } to its caller: the monitor
\* scans the libraries when something was organized, POST /organize answers.
OrganizeReturns(p, org, errs) ==
    IF p \in Ticks
    THEN IF Len(org) > 0 /\ jellyfinService
         THEN StartScan(p, org, errs)
         ELSE TickEnd(p, IF Len(org) > 0 THEN "organized" ELSE "nothing_organized")
    ELSE OrganizeEnd(p, "ok", org, errs)

\* OrganizeThrows with no catch around the monitor's call of organizeDownloads.
OrganizeThrows_Uncaught(p) == OrganizeEnd(p, "error", organized[p], errors[p])

\* organizeDownloads rethrows from its outer catch: the monitor logs it,
\* POST /organize answers 500.
OrganizeThrows(p) ==
    IF p \in Ticks
    THEN TickEnd(p, "organize_threw")
    ELSE OrganizeEnd(p, "error", organized[p], errors[p])

\* End of one iteration of the for loop over folders.
NextFolder(p, org, errs) ==
    IF idx[p] < Len(folders[p])
    THEN Stay(p, "access_dest", folders[p], idx[p] + 1, org, errs)
    ELSE OrganizeReturns(p, org, errs)

\* What a step of a run leaves alone besides the two directories' contents.
envframe == <<svars, processedTorrents, torrents, jellyfinService, lastFetchSid,
              dlRootOk, mvRootOk>>

\* ------------------------------------------------- organizeDownloads
CurFolder(p) == folders[p][idx[p]]

SkipEntry(n) == [folder |-> n, error |-> "Destination already exists", destination |-> CleanName(n)]
FailEntry(n, msg) == [folder |-> n, error |-> msg, destination |-> CleanName(n)]
OrganizedEntry(n) == [original |-> n, organized |-> CleanName(n), path |-> CleanName(n)]

\* POST /organize: the handler calls organizeDownloads, which awaits
\* fs.access(downloadsDir).
OrganizeCall(c) ==
    /\ pc[c] = "idle"
    /\ op' = [op EXCEPT ![c] = "organize"]
    /\ pc' = [pc EXCEPT ![c] = "access_dl"]
    /\ UNCHANGED <<svars, sentSid, lastResp, addReqs, loginReqs, listReqs, result, rvars, fvars>>

\* await fs.access(downloadsDir) is over; next await fs.access(moviesDir)
OrgAccessDownloads(p) ==
    /\ pc[p] = "access_dl"
    /\ IF dlRootOk
       THEN Stay(p, "access_mv", <<>>, 0, <<>>, <<>>)
       ELSE OrganizeThrows(p)
    /\ UNCHANGED <<envframe, downloads, movies>>

\* OrgAccessMovies with the outcome of fs.access ignored.
OrgAccessMovies_Unchecked(p) ==
    /\ pc[p] = "access_mv"
    /\ Stay(p, "readdir", <<>>, 0, <<>>, <<>>)
    /\ UNCHANGED <<envframe, downloads, movies>>

\* await fs.access(moviesDir) is over; next await fs.readdir(downloadsDir)
OrgAccessMovies(p) ==
    /\ pc[p] = "access_mv"
    /\ IF mvRootOk
       THEN Stay(p, "readdir", <<>>, 0, <<>>, <<>>)
       ELSE OrganizeThrows(p)
    /\ UNCHANGED <<envframe, downloads, movies>>

\* await fs.readdir is over: keep the directories; return at once when there
\* is none, else enter the loop and await fs.access(destPath) of the first.
OrgReaddir(p) ==
    /\ pc[p] = "readdir"
    /\ \E order \in Orders(PresentFolders) :
          IF Len(order) = 0
          THEN OrganizeReturns(p, <<>>, <<>>)
          ELSE Stay(p, "access_dest", order, 1, <<>>, <<>>)
    /\ UNCHANGED <<envframe, downloads, movies>>

\* OrgAccessDest that goes on to the copy whatever it found.
OrgAccessDest_NoSkip(p) ==
    /\ pc[p] = "access_dest"
    /\ Stay(p, "cp", folders[p], idx[p], organized[p], errors[p])
    /\ UNCHANGED <<envframe, downloads, movies>>

\* OrgAccessDest that looks for the folder's own name in the movies directory.
OrgAccessDest_RawName(p) ==
    /\ pc[p] = "access_dest"
    /\ IF DestExists(CurFolder(p))
       THEN NextFolder(p, organized[p], Append(errors[p], SkipEntry(CurFolder(p))))
       ELSE Stay(p, "cp", folders[p], idx[p], organized[p], errors[p])
    /\ UNCHANGED <<envframe, downloads, movies>>

\* await fs.access(destPath) is over: an existing destination is recorded in
\* errors and the loop continues; else await fs.cp(sourcePath, destPath).
OrgAccessDest(p) ==
    /\ pc[p] = "access_dest"
    /\ IF DestExists(CleanName(CurFolder(p)))
       THEN NextFolder(p, organized[p], Append(errors[p], SkipEntry(CurFolder(p))))
       ELSE Stay(p, "cp", folders[p], idx[p], organized[p], errors[p])
    /\ UNCHANGED <<envframe, downloads, movies>>

\* OrgCopy whose failure is swallowed: the removal follows all the same.
OrgCopy_RemoveAnyway(p) ==
    /\ pc[p] = "cp"
    /\ LET n == CurFolder(p) IN
       \/ /\ downloads[n] # "absent"
          /\ movies' = movies \cup {<<CleanName(n), n, downloads[n]>>}
       \/ movies' = movies
    /\ Stay(p, "rm", folders[p], idx[p], organized[p], errors[p])
    /\ UNCHANGED <<envframe, downloads>>

\* OrgCopy without the try statement of the iteration: a failure ends the run.
OrgCopy_AbortOnFailure(p) ==
    /\ pc[p] = "cp"
    /\ LET n == CurFolder(p) IN
       \/ /\ downloads[n] # "absent"
          /\ movies' = movies \cup {<<CleanName(n), n, downloads[n]>>}
          /\ Stay(p, "rm", folders[p], idx[p], organized[p], errors[p])
       \/ /\ movies' = movies
          /\ OrganizeThrows(p)
    /\ UNCHANGED <<envframe, downloads>>

\* await fs.cp(sourcePath, destPath, { recursive: true }) is over. It copied
\* the subtree (into whatever is at destPath by now), or it failed, having
\* copied nothing or a part; a failure goes to the catch of the iteration.
OrgCopy(p) ==
    /\ pc[p] = "cp"
    /\ LET n == CurFolder(p) IN
       \/ /\ downloads[n] # "absent"
          /\ movies' = movies \cup {<<CleanName(n), n, downloads[n]>>}
          /\ Stay(p, "rm", folders[p], idx[p], organized[p], errors[p])
       \/ /\ \/ movies' = movies
             \/ downloads[n] # "absent" /\ movies' = movies \cup {<<CleanName(n), n, "partial">>}
          /\ NextFolder(p, organized[p], Append(errors[p], FailEntry(n, "cp failed")))
    /\ UNCHANGED <<envframe, downloads>>

\* await fs.rm(sourcePath, { recursive: true, force: true }) is over. It
\* removed the subtree (a missing one is no error) and the item is pushed to
\* organized, or it failed, having removed nothing or a part.
OrgRemove(p) ==
    /\ pc[p] = "rm"
    /\ LET n == CurFolder(p) IN
       \/ /\ downloads' = [downloads EXCEPT ![n] = "absent"]
          /\ NextFolder(p, Append(organized[p], OrganizedEntry(n)), errors[p])
       \/ /\ downloads[n] # "absent"
          /\ \/ downloads' = downloads
             \/ downloads' = [downloads EXCEPT ![n] = "partial"]
          /\ NextFolder(p, organized[p], Append(errors[p], FailEntry(n, "rm failed")))
    /\ UNCHANGED <<envframe, movies>>

\* ------------------------------------------- checkForCompletedTorrents
\* What /torrents/info?filter=completed returns: the torrents the daemon
\* files under completed, each with its progress.
Listing == {h \in Hashes : torrents[h] \in {"completing", "done"}}
Progress(h) == IF torrents[h] = "done" THEN 1 ELSE 0

\* NewCompleted without the test on progress.
NewCompleted_NoProgressTest(listing) == {h \in listing : h \notin processedTorrents}

\* NewCompleted without the test on processedTorrents.
NewCompleted_NoProcessedTest(listing) == {h \in listing : Progress(h) = 1}

\* torrents.filter(t => !processedTorrents.has(t.hash) && t.progress === 1)
NewCompleted(listing) == {h \in listing : h \notin processedTorrents /\ Progress(h) = 1}

\* The activation record a new call of checkForCompletedTorrents gets: the
\* first one that is free.
FirstIdle(t) == pc[t] = "idle" /\ \A u \in Ticks : pc[u] = "idle" => t[2] <= u[2]

\* TickStart without the test on organizationRunning.
TickStart_NoGuard(t) ==
    /\ FirstIdle(t)
    /\ organizationRunning' = TRUE
    /\ lastTick' = "running"
    /\ op' = [op EXCEPT ![t] = "tick"]
    /\ EnsureSessionThen(t, "list")
    /\ UNCHANGED <<svars, result, processedTorrents, torrents, jellyfinService, selected,
                   organizeCalls, scanReqs, lastFetchSid, fvars>>

\* The timer fires while no run is active: the guard is set and getTorrents
\* is called (ensureSession, then the list request).
TickStart(t) ==
    /\ FirstIdle(t)
    /\ ~organizationRunning
    /\ organizationRunning' = TRUE
    /\ lastTick' = "running"
    /\ op' = [op EXCEPT ![t] = "tick"]
    /\ EnsureSessionThen(t, "list")
    /\ UNCHANGED <<svars, result, processedTorrents, torrents, jellyfinService, selected,
                   organizeCalls, scanReqs, lastFetchSid, fvars>>

\* TickSkip with the test on the guard inside the try statement, so that the
\* finally block runs for the skipped call too.
TickSkip_ClearsGuard ==
    /\ organizationRunning
    /\ organizationRunning' = FALSE
    /\ lastTick' = "skipped"
    /\ UNCHANGED <<svars, pvars, processedTorrents, torrents,
                   jellyfinService, selected, organizeCalls, scanReqs, lastFetchSid, fvars>>

\* The timer fires while a run is active: checkForCompletedTorrents returns
\* before its try statement.
TickSkip ==
    /\ organizationRunning
    /\ lastTick' = "skipped"
    /\ UNCHANGED <<svars, pvars, organizationRunning, processedTorrents, torrents,
                   jellyfinService, selected, organizeCalls, scanReqs, lastFetchSid, fvars>>

\* The login request of the monitor's getTorrents is answered; a failure is
\* caught by checkForCompletedTorrents.
TickLoginResponse(t) ==
    /\ pc[t] = "login"
    /\ \/ /\ LoginSucceeds(t)
          /\ UNCHANGED <<rvars, fvars>>
       \/ /\ LoginFails
          /\ TickEnd(t, "fetch_failed")
          /\ UNCHANGED <<envframe, downloads, movies>>

\* TickListResponse without processedTorrents.add.
TickListResponse_NoMark(t) ==
    /\ pc[t] = "list"
    /\ \E resp \in Answers(sentSid[t]) :
       IF resp = "ok"
       THEN /\ lastFetchSid' = sentSid[t]
            /\ IF NewCompleted(Listing) # {}
               THEN /\ processedTorrents' = processedTorrents
                    /\ selected' = [selected EXCEPT ![t] = NewCompleted(Listing)]
                    /\ organizeCalls' = [organizeCalls EXCEPT ![t] = @ + 1]
                    /\ pc' = [pc EXCEPT ![t] = "access_dl"]
                    /\ lastResp' = [lastResp EXCEPT ![t] = "ok"]
                    /\ UNCHANGED <<op, sentSid, addReqs, loginReqs, listReqs, result,
                                   organizationRunning, scanReqs, lastTick,
                                   folders, idx, organized, errors>>
               ELSE /\ TickEnd(t, "nothing_new")
                    /\ UNCHANGED processedTorrents
       ELSE /\ TickEnd(t, "fetch_failed")
            /\ lastFetchSid' = NULL
            /\ UNCHANGED processedTorrents
    /\ UNCHANGED <<svars, torrents, jellyfinService, dlRootOk, mvRootOk, downloads, movies>>

\* TickListResponse with organizeDownloads called for each selected torrent.
TickListResponse_OrganizePerTorrent(t) ==
    /\ pc[t] = "list"
    /\ \E resp \in Answers(sentSid[t]) :
       IF resp = "ok"
       THEN /\ lastFetchSid' = sentSid[t]
            /\ IF NewCompleted(Listing) # {}
               THEN /\ processedTorrents' = processedTorrents \cup NewCompleted(Listing)
                    /\ selected' = [selected EXCEPT ![t] = NewCompleted(Listing)]
                    /\ organizeCalls' = [organizeCalls EXCEPT ![t] = @ + Cardinality(NewCompleted(Listing))]
                    /\ pc' = [pc EXCEPT ![t] = "access_dl"]
                    /\ lastResp' = [lastResp EXCEPT ![t] = "ok"]
                    /\ UNCHANGED <<op, sentSid, addReqs, loginReqs, listReqs, result,
                                   organizationRunning, scanReqs, lastTick,
                                   folders, idx, organized, errors>>
               ELSE /\ TickEnd(t, "nothing_new")
                    /\ UNCHANGED processedTorrents
       ELSE /\ TickEnd(t, "fetch_failed")
            /\ lastFetchSid' = NULL
            /\ UNCHANGED processedTorrents
    /\ UNCHANGED <<svars, torrents, jellyfinService, dlRootOk, mvRootOk, downloads, movies>>

\* The list request of the monitor's getTorrents is answered. With the list:
\* the new completed torrents are added to processedTorrents and, when there
\* is one, organizeDownloads is called. A failure is thrown by getTorrents
\* and caught by checkForCompletedTorrents.
TickListResponse(t) ==
    /\ pc[t] = "list"
    /\ \E resp \in Answers(sentSid[t]) :
       IF resp = "ok"
       THEN /\ lastFetchSid' = sentSid[t]
            /\ IF NewCompleted(Listing) # {}
               THEN /\ processedTorrents' = processedTorrents \cup NewCompleted(Listing)
                    /\ selected' = [selected EXCEPT ![t] = NewCompleted(Listing)]
                    /\ organizeCalls' = [organizeCalls EXCEPT ![t] = @ + 1]
                    /\ pc' = [pc EXCEPT ![t] = "access_dl"]
                    /\ lastResp' = [lastResp EXCEPT ![t] = "ok"]
                    /\ UNCHANGED <<op, sentSid, addReqs, loginReqs, listReqs, result,
                                   organizationRunning, scanReqs, lastTick,
                                   folders, idx, organized, errors>>
               ELSE /\ TickEnd(t, "nothing_new")
                    /\ UNCHANGED processedTorrents
       ELSE /\ TickEnd(t, "fetch_failed")
            /\ lastFetchSid' = NULL
            /\ UNCHANGED processedTorrents
    /\ UNCHANGED <<svars, torrents, jellyfinService, dlRootOk, mvRootOk, downloads, movies>>

\* The scan request is answered or fails; a failure is caught and logged.
TickScanResponse(t) ==
    /\ pc[t] = "scan"
    /\ \E ok \in BOOLEAN : TickEnd(t, IF ok THEN "scanned" ELSE "scan_failed")
    /\ UNCHANGED <<envframe, downloads, movies>>

\* A torrent of the daemon progresses.
TorrentProgress(h) ==
    /\ \/ torrents[h] = "downloading" /\ torrents' = [torrents EXCEPT ![h] = "completing"]
       \/ torrents[h] \in {"downloading", "completing"} /\ torrents' = [torrents EXCEPT ![h] = "done"]
    /\ UNCHANGED <<svars, pvars, organizationRunning, processedTorrents, jellyfinService,
                   selected, organizeCalls, scanReqs, lastTick, lastFetchSid, fvars>>

\* ------------------------------------------------------- searchJackett
\* Sizes are counted in MiB, so that 1024 * 1024 * 1024 bytes are 1024.
GB == 1024
MinSizeGB == 2       \* sizeGB >= 2
MaxSizeGB == 15      \* sizeGB <= 15
MaxReturned == 10    \* filteredResults.slice(0, 10)

Undefined == "undefined"

\* result.Size ? ... : 0, result.Seeders || 0, result.Peers || 0: the number,
\* or 0 when the property is missing (or is 0 itself)
NumberOr0(r, f) == IF f \in DOMAIN r THEN r[f] ELSE 0

\* result.Title, result.Tracker, ...: the property or undefined
Prop(r, f) == IF f \in DOMAIN r THEN r[f] ELSE Undefined

\* response.data.Results || []
ResultsOf(data) == IF "Results" \in DOMAIN data THEN data.Results ELSE <<>>

\* KeepResult with only the upper limit tested.
KeepResult_NoLowerLimit(r) == NumberOr0(r, "Size") <= MaxSizeGB * GB

\* the callback of filter: sizeGB = Size / GB, or 0 without a Size;
\* sizeGB >= 2 && sizeGB <= 15
KeepResult(r) ==
    LET size == NumberOr0(r, "Size")
    IN  size >= MinSizeGB * GB /\ size <= MaxSizeGB * GB

\* results.filter(...): the positions of the results that are kept, in order
Filtered(results) ==
    SelectSeq([i \in 1..Len(results) |-> i], LAMBDA i : KeepResult(results[i]))

\* CompareSeeders with a and b exchanged.
CompareSeeders_Ascending(a, b) == NumberOr0(a, "Seeders") - NumberOr0(b, "Seeders")

\* the comparator of sort: (b.Seeders || 0) - (a.Seeders || 0)
CompareSeeders(a, b) == NumberOr0(b, "Seeders") - NumberOr0(a, "Seeders")

\* Array.prototype.sort is stable: position i goes behind every position
\* that the comparator does not put after it.
RECURSIVE InsertSorted(_, _, _)
InsertSorted(sorted, i, results) ==
    IF sorted = <<>> THEN <<i>>
    ELSE IF CompareSeeders(results[Head(sorted)], results[i]) <= 0
         THEN <<Head(sorted)>> \o InsertSorted(Tail(sorted), i, results)
         ELSE <<i>> \o sorted

RECURSIVE SortBySeeders(_, _)
SortBySeeders(positions, results) ==
    IF positions = <<>> THEN <<>>
    ELSE InsertSorted(SortBySeeders(SubSeq(positions, 1, Len(positions) - 1), results),
                      positions[Len(positions)], results)

\* filteredResults.slice(0, 10)
Slice(sorted) == SubSeq(sorted, 1, IF Len(sorted) < MaxReturned THEN Len(sorted) ELSE MaxReturned)

\* TopResults with the first ten kept results sorted, not the ten best kept.
TopResults_SliceBeforeSort(results) == SortBySeeders(Slice(Filtered(results)), results)

\* the positions in results of the elements of the returned array
TopResults(results) == Slice(SortBySeeders(Filtered(results), results))

\* (Size / 1024 / 1024 / 1024).toFixed(2): the hundredths of a GB nearest to
\* the size, halves going up, as whole part and two decimals
ToFixed2(size) ==
    LET hundredths == (2 * 100 * size + GB) \div (2 * GB)
    IN  <<"GB", hundredths \div 100, hundredths % 100>>

\* the callback of map
FormatResult(r) ==
    [title       |-> Prop(r, "Title"),
     size        |-> IF NumberOr0(r, "Size") # 0 THEN ToFixed2(r.Size) ELSE <<"Unknown">>,
     seeders     |-> NumberOr0(r, "Seeders"),
     peers       |-> NumberOr0(r, "Peers"),
     magnetLink  |-> IF "MagnetUri" \in DOMAIN r THEN r.MagnetUri ELSE Prop(r, "Link"),
     indexer     |-> Prop(r, "Tracker"),
     publishDate |-> Prop(r, "PublishDate")]

\* The results Jackett may list: every combination of size against the two
\* limits, with and without the optional properties.
Huge == [Title |-> "huge", Size |-> 67891]                \* 66.3 GB
Best == [Title |-> "best", Size |-> 2611, Seeders |-> 599, Peers |-> 3,
         MagnetUri |-> "magnet:best", Tracker |-> "t", PublishDate |-> "d"]   \* 2.55 GB
Good == [Title |-> "good", Size |-> 5120, Seeders |-> 10, Link |-> "http://good"]   \* 5 GB
RawKinds ==
    { Huge, Best, Good,
      [Title |-> "sizeless", Seeders |-> 900, MagnetUri |-> "magnet:sizeless"],
      [Title |-> "least", Size |-> MinSizeGB * GB],
      [Title |-> "most", Size |-> MaxSizeGB * GB, Seeders |-> 10, Peers |-> 1],
      [Title |-> "under", Size |-> MinSizeGB * GB - 1, Seeders |-> 700],
      [Title |-> "over", Size |-> MaxSizeGB * GB + 1, Seeders |-> 10],
      [Title |-> "unseeded", Size |-> 3000, Seeders |-> 0, Link |-> "http://unseeded"] }

\* Results that pass the filter, of which an answer may hold many.
PopularKinds == {Best, Good}

ResultLists ==
    UNION {[1..n -> RawKinds] : n \in 0..MaxShort}
       \cup UNION {[1..n -> PopularKinds] : n \in 0..MaxLong}

\* What axios.get may come to: a failure, or a body with or without Results.
Responses ==
    {[status |-> "failed"], [status |-> "ok", data |-> [Indexers |-> <<>>]]}
       \cup {[status |-> "ok", data |-> [Indexers |-> <<>>, Results |-> l]] : l \in ResultLists}

\* searchJackett(query): throws without an API key, else sends the request.
SearchJackett ==
    /\ searchPc = "idle"
    /\ searchPc' = IF jackettApiKey THEN "get" ELSE "threw"
    /\ UNCHANGED <<jackettApiKey, response, ranked, rankedFrom>>
    /\ UNCHANGED <<svars, pvars, rvars, fvars, scenario, nvars, hvars, avars>>

\* SearchResponse refusing an answer without results.
SearchResponse_ThrowsOnNone ==
    /\ searchPc = "get"
    /\ IF response.status = "ok" /\ TopResults(ResultsOf(response.data)) # <<>>
       THEN LET results == ResultsOf(response.data)
                top == TopResults(results)
            IN  /\ rankedFrom' = top
                /\ ranked' = [j \in 1..Len(top) |-> FormatResult(results[top[j]])]
                /\ searchPc' = "returned"
       ELSE /\ searchPc' = "threw"
            /\ UNCHANGED <<ranked, rankedFrom>>
    /\ UNCHANGED <<jackettApiKey, response>>
    /\ UNCHANGED <<svars, pvars, rvars, fvars, scenario, nvars, hvars, avars>>

\* The request is answered, and the results are filtered, sorted, cut and
\* formatted, or it fails and the catch block throws.
SearchResponse ==
    /\ searchPc = "get"
    /\ IF response.status = "ok"
       THEN LET results == ResultsOf(response.data)
                top == TopResults(results)
            IN  /\ rankedFrom' = top
                /\ ranked' = [j \in 1..Len(top) |-> FormatResult(results[top[j]])]
                /\ searchPc' = "returned"
       ELSE /\ searchPc' = "threw"
            /\ UNCHANGED <<ranked, rankedFrom>>
    /\ UNCHANGED <<jackettApiKey, response>>
    /\ UNCHANGED <<svars, pvars, rvars, fvars, scenario, nvars, hvars, avars>>

\* --------------------------------------------------- cleanName by itself
\* cleanName is applied to the given name, then to what it returned.
NormalizeAgain ==
    /\ Len(cleaned) < 2
    /\ cleaned' = Append(cleaned, CleanName(IF cleaned = <<>> THEN given ELSE cleaned[Len(cleaned)]))
    /\ UNCHANGED <<given, svars, pvars, rvars, fvars, scenario, qvars, hvars, avars>>

\* ------------------------------------------------------ the HTTP routes
\* const API_PASSWORD = process.env.API_PASSWORD || 'defaultpassword'
API_PASSWORD == "defaultpassword"

\* What a request may carry as password in its query string or its body:
\* nothing, the empty string, another string, the configured one.
PasswordsGiven == {Undefined, "", "guess", API_PASSWORD}

Routes ==
    {"GET /", "POST /search", "POST /search-download", "POST /download", "GET /torrents",
     "GET /movies", "GET /movies/:id", "GET /stream/:id", "POST /movies/scan",
     "POST /organize"}

\* GatedRoutes with POST /organize registered without the middleware.
GatedRoutes_OrganizeOpen ==
    {"POST /search", "POST /search-download", "POST /download", "GET /torrents",
     "GET /movies", "GET /movies/:id", "GET /stream/:id", "POST /movies/scan"}

\* The routes registered with requirePassword before their handler.
GatedRoutes ==
    {"POST /search", "POST /search-download", "POST /download", "GET /torrents",
     "GET /movies", "GET /movies/:id", "GET /stream/:id", "POST /movies/scan",
     "POST /organize"}

\* The routes whose handler needs the media server, and its method they call.
JellyfinRoutes == {"GET /movies", "GET /movies/:id", "GET /stream/:id", "POST /movies/scan"}
JellyfinCall(route) ==
    IF route = "GET /movies" THEN "getMovies"
    ELSE IF route = "POST /movies/scan" THEN "scanLibraries" ELSE "getMovie"

\* const password = req.query.password || req.body.password
PasswordOf(r) == IF r.query \in {Undefined, ""} THEN r.body ELSE r.query

\* requirePassword compared with a password taken from the body only.
RequirePassword_BodyOnly(r) == r.body = API_PASSWORD

\* requirePassword: next() is called unless password !== API_PASSWORD
RequirePassword(r) == PasswordOf(r) = API_PASSWORD

NoReq == [route |-> "none", query |-> Undefined, body |-> Undefined, param |-> FALSE]

NoRequest ==
    /\ req = NoReq
    /\ apiPc = "idle"
    /\ status = 0
    /\ coreCalls = <<>>
    /\ handed = Undefined
    /\ wouldDownload = <<>>
    /\ qbittorrentService = TRUE

apiframe == <<svars, pvars, rvars, fvars, scenario, nvars, hvars, qbittorrentService>>

\* A request arrives; param tells whether it has the parameter its route
\* requires (query, magnetLink).
ApiRequest ==
    /\ apiPc = "idle"
    /\ \E route \in Routes, q \in PasswordsGiven, b \in PasswordsGiven, param \in BOOLEAN :
          req' = [route |-> route, query |-> q, body |-> b, param |-> param]
    /\ apiPc' = "received"
    /\ status' = 0
    /\ coreCalls' = <<>>
    /\ handed' = Undefined
    /\ wouldDownload' = <<>>
    /\ UNCHANGED <<qvars, apiframe>>

\* res.status(code).json(...) / res.json(...) / res.redirect(...)
Answer(code) ==
    /\ status' = code
    /\ apiPc' = "answered"

\* The handler calls a core operation and awaits it.
CallCore(operation) ==
    /\ coreCalls' = Append(coreCalls, operation)
    /\ apiPc' = operation
    /\ UNCHANGED status

\* The handler of a gated route up to its first await: the parameter and the
\* service it needs are tested, then the core operation is called.
Handler ==
    IF req.route \in {"POST /search", "POST /search-download"}
    THEN IF ~req.param THEN Answer(400) /\ UNCHANGED coreCalls
         ELSE CallCore("searchJackett")
    ELSE IF req.route = "POST /download"
    THEN IF ~req.param THEN Answer(400) /\ UNCHANGED coreCalls
         ELSE IF ~qbittorrentService THEN Answer(500) /\ UNCHANGED coreCalls
         ELSE CallCore("addTorrent")
    ELSE IF req.route = "GET /torrents"
    THEN IF ~qbittorrentService THEN Answer(500) /\ UNCHANGED coreCalls
         ELSE CallCore("getTorrents")
    ELSE IF req.route \in JellyfinRoutes
    THEN IF ~jellyfinService THEN Answer(500) /\ UNCHANGED coreCalls
         ELSE CallCore(JellyfinCall(req.route))
    ELSE CallCore("organizeDownloads")

\* express runs the middleware and the handler registered for the route:
\* GET / answers at once; requirePassword answers 401 or passes on.
Dispatch ==
    /\ apiPc = "received"
    /\ IF req.route = "GET /"
       THEN Answer(200) /\ UNCHANGED coreCalls
       ELSE IF req.route \in GatedRoutes /\ ~RequirePassword(req)
       THEN Answer(401) /\ UNCHANGED coreCalls
       ELSE Handler
    /\ handed' = IF apiPc' = "addTorrent" THEN "req.body.magnetLink" ELSE handed
    /\ UNCHANGED <<req, wouldDownload, qvars, apiframe>>

\* searchJackett runs for the handler that awaits it.
ApiSearchJackett ==
    /\ apiPc = "searchJackett"
    /\ SearchJackett
    /\ UNCHANGED <<req, apiPc, status, coreCalls, handed, wouldDownload>>

ApiSearchResponse ==
    /\ apiPc = "searchJackett"
    /\ SearchResponse
    /\ UNCHANGED <<req, apiPc, status, coreCalls, handed, wouldDownload>>

\* SearchDownloadContinues that picks the last of the results.
SearchDownloadContinues_Last ==
    IF qbittorrentService /\ Len(ranked) > 0
    THEN IF ranked[Len(ranked)].magnetLink = Undefined
         THEN Answer(400) /\ UNCHANGED <<coreCalls, handed>>
         ELSE CallCore("addTorrent") /\ handed' = ranked[Len(ranked)].magnetLink
    ELSE Answer(200) /\ UNCHANGED <<coreCalls, handed>>

\* POST /search-download after searchJackett returned: the first result is
\* given to addTorrent when there is one and the service exists; a first
\* result without magnetLink is answered with 400.
SearchDownloadContinues ==
    IF qbittorrentService /\ Len(ranked) > 0
    THEN IF ranked[1].magnetLink = Undefined
         THEN Answer(400) /\ UNCHANGED <<coreCalls, handed>>
         ELSE CallCore("addTorrent") /\ handed' = ranked[1].magnetLink
    ELSE Answer(200) /\ UNCHANGED <<coreCalls, handed>>

\* The await of searchJackett is over: POST /search answers with the results
\* and wouldDownload; POST /search-download goes on; a throw is answered 500.
SearchDone ==
    /\ apiPc = "searchJackett"
    /\ searchPc \in {"returned", "threw"}
    /\ searchPc' = "idle"
    /\ IF searchPc = "threw"
       THEN Answer(500) /\ UNCHANGED <<coreCalls, handed, wouldDownload>>
       ELSE IF req.route = "POST /search"
       THEN /\ Answer(200)
            /\ wouldDownload' = IF Len(ranked) > 0 THEN <<ranked[1]>> ELSE <<>>
            /\ UNCHANGED <<coreCalls, handed>>
       ELSE SearchDownloadContinues /\ UNCHANGED wouldDownload
    /\ UNCHANGED <<req, jackettApiKey, response, ranked, rankedFrom, apiframe>>

\* The await of any other core operation is over: it returned or threw.
\* POST /search-download answers 200 in both cases, GET /stream/:id
\* redirects, the others answer 200 or 500.
CoreDone ==
    /\ apiPc \notin {"idle", "received", "answered", "searchJackett"}
    /\ \E ok \in BOOLEAN :
          Answer(IF req.route = "POST /search-download" THEN 200
                 ELSE IF ~ok THEN 500
                 ELSE IF req.route = "GET /stream/:id" THEN 302 ELSE 200)
    /\ UNCHANGED <<req, coreCalls, handed, wouldDownload, qvars, apiframe>>

\* The answer is out; the next request is served.
ApiDone ==
    /\ apiPc = "answered"
    /\ apiPc' = "idle"
    /\ req' = NoReq
    /\ UNCHANGED <<status, coreCalls, handed, wouldDownload, qvars, apiframe>>

\* Results of which an answer of Jackett to the routes may be made: too
\* large, with a magnet link, with a link, within the limits with neither.
MaxApiResults == 2
Least == [Title |-> "least", Size |-> MinSizeGB * GB]
ApiKinds == {Huge, Best, Good, Least}
ApiResponses ==
    {[status |-> "failed"], [status |-> "ok", data |-> [Indexers |-> <<>>]]}
       \cup {[status |-> "ok", data |-> [Indexers |-> <<>>, Results |-> l]] :
                l \in UNION {[1..n -> ApiKinds] : n \in 0..MaxApiResults}}

\* ------------------------------------------------------- initial states
InitService ==
    /\ sessionId = NULL
    /\ validSids = {}
    /\ expireBudget = MaxExpire
    /\ op = [p \in Procs |-> "idle"]
    /\ pc = [p \in Procs |-> "idle"]
    /\ sentSid = [p \in Procs |-> NULL]
    /\ lastResp = [p \in Procs |-> "none"]
    /\ addReqs = [p \in Procs |-> 0]
    /\ loginReqs = [p \in Procs |-> 0]
    /\ listReqs = [p \in Procs |-> 0]
    /\ result = [p \in Procs |-> "none"]

InitMonitor ==
    /\ organizationRunning = FALSE
    /\ processedTorrents = {}
    /\ selected = [p \in Procs |-> {}]
    /\ organizeCalls = [p \in Procs |-> 0]
    /\ scanReqs = [p \in Procs |-> 0]
    /\ lastTick = "none"
    /\ lastFetchSid = NULL
    /\ observedDone = {}
    /\ actedUpon = {}
    /\ ranBefore = FALSE
    /\ refused = {}
    /\ rerun = [p \in Procs |-> FALSE]

InitRun ==
    /\ scenario = [p \in Procs |-> FALSE]
    /\ folders = [p \in Procs |-> <<>>]
    /\ idx = [p \in Procs |-> 0]
    /\ organized = [p \in Procs |-> <<>>]
    /\ errors = [p \in Procs |-> <<>>]

NoSearch ==
    /\ jackettApiKey = TRUE
    /\ response = [status |-> "failed"]
    /\ searchPc = "idle"
    /\ ranked = <<>>
    /\ rankedFrom = <<>>

NoNames ==
    /\ given = <<>>
    /\ cleaned = <<>>

\* Where a call of organizeDownloads can be suspended.
OrganizePcs == {"access_dl", "access_mv", "readdir", "access_dest", "cp", "rm"}

\* Library entries that were there before.
LibraryEntries == {<<d, <<"lib">>, "full">> : d \in DestNames \ {<<>>}}

\* The activation p takes a step: what becomes of scenario, what the step
\* adds to the record of listings and organize calls; no search and no
\* cleanName outside a run is part of the step.
Observe(p) ==
    /\ scenario' = [q \in Procs |->
          /\ q = p
          /\ lastResp'[p] # "err"
          /\ IF pc[p] = "idle"
             THEN /\ op'[p] = "addTorrent"
                  /\ sessionId # NULL /\ sessionId \notin validSids
                  /\ credsValid
                  /\ \A r \in Procs \ {p} : pc[r] = "idle"
             ELSE pc'[p] # "idle" /\ scenario[p]]
    /\ observedDone' =
          IF p \in Ticks /\ pc[p] = "list" /\ lastFetchSid' # NULL
          THEN observedDone \cup {h \in Hashes : torrents[h] = "done"}
          ELSE observedDone
    /\ actedUpon' =
          IF organizeCalls'[p] > organizeCalls[p]
          THEN actedUpon \cup selected'[p]
          ELSE actedUpon
    /\ ranBefore' = (ranBefore \/ (p \in Callers /\ pc[p] \in OrganizePcs /\ pc'[p] = "done"))
    /\ refused' =
          IF p \in Callers /\ pc[p] = "cp" /\ pc'[p] # "rm" /\ movies' = movies
          THEN refused \cup {CurFolder(p)}
          ELSE refused
    /\ rerun' = [q \in Procs |->
          IF q # p THEN rerun[q]
          ELSE IF pc[p] = "idle" /\ pc'[p] = "access_dl"
               THEN /\ p \in Callers
                    /\ ranBefore
                    /\ \A r \in Callers \ {p} : pc[r] \in OrganizePcs => rerun[r]
               ELSE pc'[p] \in OrganizePcs /\ rerun[p]]
    /\ UNCHANGED <<qvars, nvars, avars>>

\* The environment takes a step.
ObserveEnv ==
    /\ scenario' = [q \in Procs |-> FALSE]
    /\ UNCHANGED <<qvars, nvars, hvars, avars>>

InitFs ==
    /\ dlRootOk \in BOOLEAN
    /\ mvRootOk \in BOOLEAN
    /\ downloads \in [FolderNames -> {"absent", "full"}]
    /\ movies \in SUBSET LibraryEntries

NoFs ==
    /\ dlRootOk = TRUE /\ mvRootOk = TRUE
    /\ downloads = [n \in FolderNames |-> "absent"]
    /\ movies = {}

\* The session client under foreground calls.
Init ==
    /\ InitService /\ InitMonitor /\ InitRun /\ NoRequest /\ NoSearch /\ NoNames /\ NoFs
    /\ netFaults = TRUE
    /\ credsValid \in BOOLEAN
    /\ jellyfinService = TRUE
    /\ torrents = [h \in Hashes |-> "downloading"]

Next ==
    \/ \E c \in Callers : AddTorrentCall(c) /\ Observe(c)
    \/ \E c \in Callers : GetTorrentsCall(c) /\ Observe(c)
    \/ \E c \in Callers : LogoutCall(c) /\ Observe(c)
    \/ \E c \in Callers : LoginResponse(c) /\ Observe(c)
    \/ \E c \in Callers : AddResponse(c) /\ Observe(c)
    \/ \E c \in Callers : ListResponse(c) /\ Observe(c)
    \/ \E c \in Callers : LogoutResponse(c) /\ Observe(c)
    \/ \E c \in Callers : CallReturn(c) /\ Observe(c)
    \/ DaemonExpire /\ ObserveEnv

Spec == Init /\ [][Next]_vars

\* The request handler that serves when requests come one at a time, and the
\* activation of the timer callback that runs when no other does.
FirstCaller == <<"call", 1>>
FirstTick == <<"tick", 1>>

\* The session client under the calls of one request handler and the
\* monitor's getTorrents together; no torrent completes, so the monitor's runs
\* end with the listing.
InitSession ==
    /\ InitService /\ InitMonitor /\ InitRun /\ NoRequest /\ NoSearch /\ NoNames /\ NoFs
    /\ netFaults = TRUE
    /\ credsValid \in BOOLEAN
    /\ jellyfinService = TRUE
    /\ torrents = [h \in Hashes |-> "downloading"]

NextSession ==
    \/ AddTorrentCall(FirstCaller) /\ Observe(FirstCaller)
    \/ GetTorrentsCall(FirstCaller) /\ Observe(FirstCaller)
    \/ LogoutCall(FirstCaller) /\ Observe(FirstCaller)
    \/ LoginResponse(FirstCaller) /\ Observe(FirstCaller)
    \/ AddResponse(FirstCaller) /\ Observe(FirstCaller)
    \/ ListResponse(FirstCaller) /\ Observe(FirstCaller)
    \/ LogoutResponse(FirstCaller) /\ Observe(FirstCaller)
    \/ CallReturn(FirstCaller) /\ Observe(FirstCaller)
    \/ TickStart(FirstTick) /\ Observe(FirstTick)
    \/ TickSkip /\ ObserveEnv
    \/ TickLoginResponse(FirstTick) /\ Observe(FirstTick)
    \/ TickListResponse(FirstTick) /\ Observe(FirstTick)
    \/ DaemonExpire /\ ObserveEnv

SpecSession == InitSession /\ [][NextSession]_vars

\* organizeDownloads called by POST /organize.
InitOrganize ==
    /\ InitService /\ InitMonitor /\ InitRun /\ NoRequest /\ NoSearch /\ NoNames /\ InitFs
    /\ netFaults = TRUE
    /\ credsValid = TRUE
    /\ jellyfinService = TRUE
    /\ torrents = [h \in Hashes |-> "downloading"]

NextOrganize ==
    \/ \E c \in Callers : OrganizeCall(c) /\ Observe(c)
    \/ \E c \in Callers : OrgAccessDownloads(c) /\ Observe(c)
    \/ \E c \in Callers : OrgAccessMovies(c) /\ Observe(c)
    \/ \E c \in Callers : OrgReaddir(c) /\ Observe(c)
    \/ \E c \in Callers : OrgAccessDest(c) /\ Observe(c)
    \/ \E c \in Callers : OrgCopy(c) /\ Observe(c)
    \/ \E c \in Callers : OrgRemove(c) /\ Observe(c)
    \/ \E c \in Callers : CallReturn(c) /\ Observe(c)

SpecOrganize == InitOrganize /\ [][NextOrganize]_vars

\* organizeDownloads called by POST /organize, with plain files next to the
\* folders of the downloads directory.
InitOrganizeFiles ==
    /\ InitService /\ InitMonitor /\ InitRun /\ NoRequest /\ NoSearch /\ NoNames
    /\ dlRootOk = TRUE /\ mvRootOk = TRUE
    /\ downloads \in [FolderNames -> {"absent", "full", "file"}]
    /\ movies \in SUBSET LibraryEntries
    /\ netFaults = TRUE
    /\ credsValid = TRUE
    /\ jellyfinService = TRUE
    /\ torrents = [h \in Hashes |-> "downloading"]

SpecOrganizeFiles == InitOrganizeFiles /\ [][NextOrganize]_vars

\* The monitor: timer ticks, the daemon and the two directories.
InitMonitorSys ==
    /\ InitService /\ InitMonitor /\ InitRun /\ NoRequest /\ NoSearch /\ NoNames
    /\ dlRootOk \in BOOLEAN
    /\ mvRootOk \in BOOLEAN
    /\ downloads \in [FolderNames -> {"absent", "full"}]
    /\ movies = {}
    /\ netFaults = TRUE
    /\ credsValid = TRUE
    /\ jellyfinService \in BOOLEAN
    /\ torrents = [h \in Hashes |-> "downloading"]

NextMonitor ==
    \/ \E t \in Ticks : TickStart(t) /\ Observe(t)
    \/ TickSkip /\ ObserveEnv
    \/ \E t \in Ticks : TickLoginResponse(t) /\ Observe(t)
    \/ \E t \in Ticks : TickListResponse(t) /\ Observe(t)
    \/ \E t \in Ticks : OrgAccessDownloads(t) /\ Observe(t)
    \/ \E t \in Ticks : OrgAccessMovies(t) /\ Observe(t)
    \/ \E t \in Ticks : OrgReaddir(t) /\ Observe(t)
    \/ \E t \in Ticks : OrgAccessDest(t) /\ Observe(t)
    \/ \E t \in Ticks : OrgCopy(t) /\ Observe(t)
    \/ \E t \in Ticks : OrgRemove(t) /\ Observe(t)
    \/ \E t \in Ticks : TickScanResponse(t) /\ Observe(t)
    \/ \E h \in Hashes : TorrentProgress(h) /\ ObserveEnv
    \/ DaemonExpire /\ ObserveEnv

SpecMonitor == InitMonitorSys /\ [][NextMonitor]_vars

\* The monitor alone, with a reachable daemon that accepts the credentials
\* and drops sessions finitely often; the timer keeps firing and every
\* pending call returns.
InitMonitorFair ==
    /\ InitService /\ InitMonitor /\ InitRun /\ NoRequest /\ NoSearch /\ NoNames
    /\ dlRootOk = TRUE /\ mvRootOk = TRUE
    /\ downloads \in [FolderNames -> {"absent", "full"}]
    /\ movies = {}
    /\ netFaults = FALSE
    /\ credsValid = TRUE
    /\ jellyfinService = TRUE
    /\ torrents = [h \in Hashes |-> "downloading"]

MonitorStep ==
    \/ \E t \in Ticks : TickStart(t) /\ Observe(t)
    \/ \E t \in Ticks : TickLoginResponse(t) /\ Observe(t)
    \/ \E t \in Ticks : TickListResponse(t) /\ Observe(t)
    \/ \E t \in Ticks : OrgAccessDownloads(t) /\ Observe(t)
    \/ \E t \in Ticks : OrgAccessMovies(t) /\ Observe(t)
    \/ \E t \in Ticks : OrgReaddir(t) /\ Observe(t)
    \/ \E t \in Ticks : OrgAccessDest(t) /\ Observe(t)
    \/ \E t \in Ticks : OrgCopy(t) /\ Observe(t)
    \/ \E t \in Ticks : OrgRemove(t) /\ Observe(t)
    \/ \E t \in Ticks : TickScanResponse(t) /\ Observe(t)

NextMonitorFair ==
    \/ MonitorStep
    \/ TickSkip /\ ObserveEnv
    \/ \E h \in Hashes : TorrentProgress(h) /\ ObserveEnv
    \/ DaemonExpireSome /\ ObserveEnv

SpecMonitorFair == InitMonitorFair /\ [][NextMonitorFair]_vars /\ WF_vars(MonitorStep)

\* searchJackett on every answer Jackett may give.
InitSearch ==
    /\ InitService /\ InitMonitor /\ InitRun /\ NoRequest /\ NoFs /\ NoNames
    /\ netFaults = TRUE
    /\ credsValid = TRUE
    /\ jellyfinService = TRUE
    /\ torrents = [h \in Hashes |-> "downloading"]
    /\ jackettApiKey \in BOOLEAN
    /\ response \in Responses
    /\ searchPc = "idle"
    /\ ranked = <<>>
    /\ rankedFrom = <<>>

NextSearch ==
    \/ SearchJackett
    \/ SearchResponse

SpecSearch == InitSearch /\ [][NextSearch]_vars

\* The routes, served one request at a time, over searchJackett and the
\* other core operations taken as calls that return or throw.
InitApi ==
    /\ InitService /\ InitMonitor /\ InitRun /\ NoFs /\ NoNames
    /\ netFaults = TRUE
    /\ credsValid = TRUE
    /\ jellyfinService \in BOOLEAN
    /\ torrents = [h \in Hashes |-> "downloading"]
    /\ jackettApiKey \in BOOLEAN
    /\ response \in ApiResponses
    /\ searchPc = "idle"
    /\ ranked = <<>>
    /\ rankedFrom = <<>>
    /\ req = NoReq
    /\ apiPc = "idle"
    /\ status = 0
    /\ coreCalls = <<>>
    /\ handed = Undefined
    /\ wouldDownload = <<>>
    /\ qbittorrentService \in BOOLEAN

NextApi ==
    \/ ApiRequest
    \/ Dispatch
    \/ ApiSearchJackett
    \/ ApiSearchResponse
    \/ SearchDone
    \/ CoreDone
    \/ ApiDone

SpecApi == InitApi /\ [][NextApi]_vars

\* cleanName on every given name.
InitNormalize ==
    /\ InitService /\ InitMonitor /\ InitRun /\ NoRequest /\ NoFs /\ NoSearch
    /\ netFaults = TRUE
    /\ credsValid = TRUE
    /\ jellyfinService = TRUE
    /\ torrents = [h \in Hashes |-> "downloading"]
    /\ given \in Names(MaxParts)
    /\ cleaned = <<>>

NextNormalize == NormalizeAgain

SpecNormalize == InitNormalize /\ [][NextNormalize]_vars

\* POST /organize, one request at a time, on a downloads directory that
\* holds one folder.
InitOrganizeNamed ==
    /\ InitService /\ InitMonitor /\ InitRun /\ NoRequest /\ NoSearch
    /\ netFaults = TRUE
    /\ credsValid = TRUE
    /\ jellyfinService = TRUE
    /\ torrents = [h \in Hashes |-> "downloading"]
    /\ dlRootOk = TRUE /\ mvRootOk = TRUE
    /\ given \in DownloadedNames
    /\ cleaned = <<>>
    /\ downloads = [n \in {given} |-> "full"]
    /\ movies \in SUBSET NamedLibraryEntries

NextOrganizeNamed ==
    \/ OrganizeCall(FirstCaller) /\ Observe(FirstCaller)
    \/ OrgAccessDownloads(FirstCaller) /\ Observe(FirstCaller)
    \/ OrgAccessMovies(FirstCaller) /\ Observe(FirstCaller)
    \/ OrgReaddir(FirstCaller) /\ Observe(FirstCaller)
    \/ OrgAccessDest(FirstCaller) /\ Observe(FirstCaller)
    \/ OrgCopy(FirstCaller) /\ Observe(FirstCaller)
    \/ OrgRemove(FirstCaller) /\ Observe(FirstCaller)
    \/ CallReturn(FirstCaller) /\ Observe(FirstCaller)

SpecOrganizeNamed == InitOrganizeNamed /\ [][NextOrganizeNamed]_vars

\* POST /organize, one request at a time.
SpecOrganizeAlone == InitOrganize /\ [][NextOrganizeNamed]_vars

\* The monitor and POST /organize in one process, with a daemon that answers,
\* both directories accessible and one folder downloaded.
InitSystem ==
    /\ InitService /\ InitMonitor /\ InitRun /\ NoRequest /\ NoSearch /\ NoNames
    /\ dlRootOk = TRUE /\ mvRootOk = TRUE
    /\ downloads \in {d \in [FolderNames -> {"absent", "full"}] :
                         Cardinality({n \in FolderNames : d[n] = "full"}) = 1}
    /\ movies = {}
    /\ netFaults = FALSE
    /\ credsValid = TRUE
    /\ jellyfinService = TRUE
    /\ torrents = [h \in Hashes |-> "downloading"]

NextSystem ==
    \/ \E t \in Ticks : TickStart(t) /\ Observe(t)
    \/ TickSkip /\ ObserveEnv
    \/ \E t \in Ticks : TickLoginResponse(t) /\ Observe(t)
    \/ \E t \in Ticks : TickListResponse(t) /\ Observe(t)
    \/ \E t \in Ticks : TickScanResponse(t) /\ Observe(t)
    \/ \E c \in Callers : OrganizeCall(c) /\ Observe(c)
    \/ \E c \in Callers : CallReturn(c) /\ Observe(c)
    \/ \E p \in Procs : OrgAccessDownloads(p) /\ Observe(p)
    \/ \E p \in Procs : OrgAccessMovies(p) /\ Observe(p)
    \/ \E p \in Procs : OrgReaddir(p) /\ Observe(p)
    \/ \E p \in Procs : OrgAccessDest(p) /\ Observe(p)
    \/ \E p \in Procs : OrgCopy(p) /\ Observe(p)
    \/ \E p \in Procs : OrgRemove(p) /\ Observe(p)
    \/ \E h \in Hashes : TorrentProgress(h) /\ ObserveEnv

SpecSystem == InitSystem /\ [][NextSystem]_vars

\* The monitor with one folder downloaded and a daemon, a media server and
\* directories that may fail, where every call the active run awaits comes back: answered, failed or
\* timed out.
RunStep ==
    \/ \E t \in Ticks : TickLoginResponse(t) /\ Observe(t)
    \/ \E t \in Ticks : TickListResponse(t) /\ Observe(t)
    \/ \E t \in Ticks : OrgAccessDownloads(t) /\ Observe(t)
    \/ \E t \in Ticks : OrgAccessMovies(t) /\ Observe(t)
    \/ \E t \in Ticks : OrgReaddir(t) /\ Observe(t)
    \/ \E t \in Ticks : OrgAccessDest(t) /\ Observe(t)
    \/ \E t \in Ticks : OrgCopy(t) /\ Observe(t)
    \/ \E t \in Ticks : OrgRemove(t) /\ Observe(t)
    \/ \E t \in Ticks : TickScanResponse(t) /\ Observe(t)

InitMonitorLive ==
    /\ InitService /\ InitMonitor /\ InitRun /\ NoRequest /\ NoSearch /\ NoNames
    /\ dlRootOk \in BOOLEAN
    /\ mvRootOk \in BOOLEAN
    /\ downloads \in {d \in [FolderNames -> {"absent", "full"}] :
                         Cardinality({n \in FolderNames : d[n] = "full"}) = 1}
    /\ movies = {}
    /\ netFaults = TRUE
    /\ credsValid = TRUE
    /\ jellyfinService = TRUE
    /\ torrents = [h \in Hashes |-> "downloading"]

SpecMonitorLive == InitMonitorLive /\ [][NextMonitor]_vars /\ WF_vars(RunStep)

\* ================================================================ claims
Active(t) == pc[t] # "idle"
Stepped(p) == <<pc[p], idx[p]>>' # <<pc[p], idx[p]>>

\* C1: one call of addTorrent sends at most two requests to the add endpoint
\* and logs in again at most once, whatever the daemon answers.
C1_AtMostTwoAddRequests ==
    \A c \in Callers : op[c] = "addTorrent" => addReqs[c] <= 2 /\ loginReqs[c] <= 2

\* C2: at most one activation of checkForCompletedTorrents is between setting
\* and clearing organizationRunning.
C2_OneRunAtATime == Cardinality({t \in Ticks : Active(t)}) <= 1

\* a tick was skipped while the active run awaits a filesystem call
C2_Witness ==
    /\ lastTick = "skipped"
    /\ \E t \in Ticks : pc[t] \in {"cp", "rm"}

\* C3: a hash enters processedTorrents when it is selected, before
\* organizeDownloads is called, never leaves it, and a hash that is in
\* processedTorrents is not selected by a later run.
C3_ProcessedOnce ==
    [][/\ processedTorrents \subseteq processedTorrents'
       /\ \A t \in Ticks :
             /\ selected'[t] # selected[t] /\ selected'[t] # {}
                   => /\ selected'[t] \cap processedTorrents = {}
                      /\ selected'[t] \subseteq processedTorrents'
             /\ organizeCalls'[t] > organizeCalls[t]
                   => selected'[t] # {} /\ selected'[t] \subseteq processedTorrents']_vars

\* the organize step cannot succeed, a hash was processed all the same, and
\* a later run fetched the list and found nothing new
C3_Witness ==
    /\ ~dlRootOk
    /\ lastTick = "nothing_new"
    /\ \E h \in processedTorrents : torrents[h] = "done"

\* C4: when the destination of a folder exists, the item is recorded with
\* 'Destination already exists', neither directory changes, and the loop goes
\* on with the next folder.
C4_ExistingDestinationSkipped ==
    [][\A p \in Callers :
          pc[p] = "access_dest" /\ Stepped(p) /\ DestExists(CleanName(CurFolder(p)))
             => /\ errors'[p] = Append(errors[p], SkipEntry(CurFolder(p)))
                /\ organized'[p] = organized[p]
                /\ movies' = movies
                /\ downloads' = downloads
                /\ IF idx[p] < Len(folders[p])
                   THEN pc'[p] = "access_dest" /\ idx'[p] = idx[p] + 1
                   ELSE pc'[p] = "done" /\ result'[p] = "ok"]_vars

\* the first folder was skipped and is still there, a later one was organized
C4_Witness ==
    \E c \in Callers :
       /\ pc[c] = "done" /\ Len(errors[c]) > 0 /\ Len(organized[c]) > 0
       /\ errors[c][1] = SkipEntry(folders[c][1])
       /\ downloads[folders[c][1]] = "full"

\* the names of the items a run has recorded, in either array
Recorded(p) ==
    {organized[p][i].original : i \in 1..Len(organized[p])}
       \cup {errors[p][i].folder : i \in 1..Len(errors[p])}

\* C5: the removal of a source is attempted only after its copy succeeded, a
\* failed copy leaves the source as it was, and an item is in organized only
\* with its destination in place and its source gone.
C5_RemoveOnlyAfterCopy ==
    [][\A p \in Callers :
          /\ pc'[p] = "rm"
                => /\ pc[p] \in {"cp", "rm"}
                   /\ \E q \in {"full", "partial"} :
                         <<CleanName(CurFolder(p)'), CurFolder(p)', q>> \in movies'
          /\ pc[p] = "cp" /\ Stepped(p) /\ pc'[p] # "rm"
                => /\ downloads' = downloads
                   /\ organized'[p] = organized[p]
                   /\ errors'[p] = Append(errors[p], FailEntry(CurFolder(p), "cp failed"))
          /\ organized'[p] # organized[p] /\ organized'[p] # <<>>
                => /\ pc[p] = "rm"
                   /\ organized'[p] = Append(organized[p], OrganizedEntry(CurFolder(p)))
                   /\ downloads'[CurFolder(p)] = "absent"
                   /\ \E q \in {"full", "partial"} :
                         <<CleanName(CurFolder(p)), CurFolder(p), q>> \in movies'
          /\ downloads' # downloads => \E r \in Procs : pc[r] = "rm" /\ Stepped(r)]_vars

\* one item's copy failed and its source is intact, another item was organized
C5_Witness ==
    \E c \in Callers :
       /\ pc[c] = "done" /\ Len(organized[c]) > 0
       /\ \E i \in 1..Len(errors[c]) :
             errors[c][i].error = "cp failed" /\ downloads[errors[c][i].folder] = "full"

\* C6: with both directories accessible a run ends normally, and every folder
\* it read has exactly one entry in organized or errors, whatever happened to
\* the other folders.
C6_OneOutcomePerFolder ==
    \A c \in Callers :
       op[c] = "organize" =>
          /\ pc[c] \in {"access_dest", "cp", "rm"}
                => /\ Len(organized[c]) + Len(errors[c]) = idx[c] - 1
                   /\ Recorded(c) = {folders[c][i] : i \in 1..(idx[c] - 1)}
          /\ pc[c] = "done" /\ dlRootOk /\ mvRootOk
                => /\ result[c] = "ok"
                   /\ Len(organized[c]) + Len(errors[c]) = Len(folders[c])
                   /\ Recorded(c) = {folders[c][i] : i \in 1..Len(folders[c])}

\* the first folder's copy failed, the second folder was organized
C6_Witness ==
    \E c \in Callers :
       /\ pc[c] = "done" /\ Len(folders[c]) >= 2
       /\ Len(errors[c]) > 0 /\ errors[c][1] = FailEntry(folders[c][1], "cp failed")
       /\ Len(organized[c]) > 0 /\ organized[c][1] = OrganizedEntry(folders[c][2])

\* C7: organizationRunning is set exactly while a run is active, on every
\* path, and no activation ends by throwing.
C7_GuardReleased ==
    /\ organizationRunning <=> \E t \in Ticks : Active(t)
    /\ \A t \in Ticks : pc[t] # "done" /\ result[t] = "none"

\* the organize step of a run threw and the guard is clear
C7_Witness == lastTick = "organize_threw" /\ ~organizationRunning

\* C8: a 401/403 answer to an add or list request, and a logout, leave
\* this.sessionId null.
C8_SessionClearedOnAuthError ==
    [][\A p \in Procs :
          /\ pc[p] \in {"add", "list"} /\ lastResp'[p] = "auth" => sessionId' = NULL
          /\ pc[p] = "logout" /\ pc'[p] # "logout" => sessionId' = NULL]_vars

\* C9: once the stored session id is one the daemon has dropped, a later run
\* of the monitor fetches the list with a session the daemon accepts.
C9_MonitorRecovers ==
    (sessionId # NULL /\ sessionId \notin validSids)
       ~> (lastFetchSid # NULL /\ lastFetchSid \in validSids)

\* C10: an addTorrent call that finds a stored session id the daemon has
\* dropped gets a 401/403 for its first add request, clears the session id,
\* logs in once, sends a second add request with the new session id and
\* returns success, leaving the new session id stored.
C10_StaleSessionRetry ==
    \A c \in Callers :
       scenario[c] =>
          /\ addReqs[c] <= 2 /\ loginReqs[c] <= 1
          /\ pc[c] = "add" /\ addReqs[c] = 1 => loginReqs[c] = 0 /\ sentSid[c] \notin validSids
          /\ pc[c] = "login" => sessionId = NULL /\ addReqs[c] = 1 /\ lastResp[c] = "auth"
          /\ pc[c] = "add" /\ addReqs[c] = 2
                => loginReqs[c] = 1 /\ sentSid[c] = sessionId /\ sessionId \in validSids
          /\ pc[c] = "done"
                => /\ result[c] = "ok"
                   /\ addReqs[c] = 2 /\ loginReqs[c] = 1
                   /\ sessionId \in validSids

\* such a call has returned
C10_Witness == \E c \in Callers : scenario[c] /\ pc[c] = "done"

\* C11: when an add request fails otherwise than by a 401/403, addTorrent
\* throws to its caller at once: no further add request, no login request,
\* this.sessionId as it was; a call that found a stored session id has then
\* sent exactly one add request and no login request.
C11_NonAuthFailurePropagates ==
    [][\A c \in Callers :
          pc[c] = "add" /\ lastResp'[c] = "err"
             => /\ pc'[c] = "done" /\ result'[c] = "error"
                /\ addReqs'[c] = addReqs[c]
                /\ loginReqs'[c] = loginReqs[c]
                /\ sessionId' = sessionId
                /\ loginReqs[c] = 0 => addReqs'[c] = 1]_vars

\* the only add request of a call failed and the session id is still stored
C11_Witness ==
    \E c \in Callers :
       /\ op[c] = "addTorrent" /\ pc[c] = "done"
       /\ lastResp[c] = "err" /\ result[c] = "error"
       /\ addReqs[c] = 1 /\ loginReqs[c] = 0
       /\ sessionId # NULL

\* C12: one call of getTorrents sends at most one list request; when that
\* request fails, by a 401/403 or otherwise, the call throws to its caller
\* without a login request and without a second list request.
C12_ListNeverRetried ==
    [][\A c \in Callers :
          /\ listReqs'[c] <= 1
          /\ pc[c] = "list" /\ lastResp'[c] \in {"auth", "err"}
                => /\ pc'[c] = "done" /\ result'[c] = "error"
                   /\ listReqs'[c] = listReqs[c]
                   /\ loginReqs'[c] = loginReqs[c]]_vars

\* a list request was answered 401/403 and the call has thrown
C12_Witness ==
    \E c \in Callers :
       /\ op[c] = "getTorrents" /\ pc[c] = "done"
       /\ lastResp[c] = "auth" /\ result[c] = "error"
       /\ listReqs[c] = 1 /\ loginReqs[c] = 0

C14_LoginStoresOnlyOnSuccess ==
    [][/\ sessionId' # sessionId /\ sessionId' # NULL
             => \E p \in Procs : pc[p] = "login" /\ Stepped(p)
       /\ \A c \in Callers :
             pc[c] = "login" /\ Stepped(c)
                => IF lastResp'[c] = "err"
                   THEN /\ pc'[c] = "done" /\ result'[c] = "error"
                        /\ sessionId' = sessionId
                        /\ validSids' = validSids
                   ELSE /\ pc'[c] \in {"add", "list"}
                        /\ sessionId' # NULL /\ sessionId' \in validSids'
                        /\ sentSid'[c] = sessionId']_vars

\* a call that had to log in has thrown and no session id is stored
C14_Witness ==
    \E c \in Callers :
       /\ pc[c] = "done" /\ result[c] = "error"
       /\ loginReqs[c] = 1 /\ addReqs[c] = 0 /\ listReqs[c] = 0
       /\ sessionId = NULL

\* C15: logout with no session id stored returns at once, with no request
\* and nothing changed; with one stored it sends one logout request carrying
\* it, and when that request is answered or fails the call returns normally
\* with this.sessionId null.
C15_LogoutBestEffort ==
    [][\A c \in Callers :
          /\ pc[c] = "idle" /\ op'[c] = "logout"
                => IF sessionId = NULL
                   THEN /\ pc'[c] = "done" /\ result'[c] = "ok"
                        /\ sessionId' = NULL
                        /\ validSids' = validSids
                        /\ sentSid' = sentSid
                   ELSE /\ pc'[c] = "logout"
                        /\ sentSid'[c] = sessionId
                        /\ sessionId' = sessionId
          /\ pc[c] = "logout" /\ Stepped(c)
                => /\ pc'[c] = "done" /\ result'[c] = "ok"
                   /\ sessionId' = NULL]_vars

\* a logout returned normally although the daemon still holds the session
C15_Witness ==
    \E c \in Callers :
       /\ op[c] = "logout" /\ pc[c] = "done" /\ result[c] = "ok"
       /\ sessionId = NULL /\ validSids # {}

\* the Results of the answer
RawResults ==
    IF "data" \in DOMAIN response /\ "Results" \in DOMAIN response.data
    THEN response.data.Results
    ELSE <<>>

\* r has a size and it is at least 2 GB and at most 15 GB
SizeWithinLimits(r) == "Size" \in DOMAIN r /\ r.Size >= 2 * 1024 /\ r.Size <= 15 * 1024

\* the seeders of r, none listed counting as 0
Seeders(r) == IF "Seeders" \in DOMAIN r THEN r.Seeders ELSE 0

C18_NothingToRankIsNoError ==
    jackettApiKey /\ response.status = "ok" /\ searchPc \in {"returned", "threw"}
       => /\ searchPc = "returned"
          /\ (\A i \in 1..Len(RawResults) : ~SizeWithinLimits(RawResults[i])) => ranked = <<>>

\* results were listed, one of them without a size, none was kept
C18_Witness ==
    /\ searchPc = "returned"
    /\ ranked = <<>>
    /\ \E i \in 1..Len(RawResults) : "Size" \notin DOMAIN RawResults[i]

\* C19: cleanName applied to a name it returned returns that name.
C19_CleanNameIdempotent ==
    Len(cleaned) = 2 => cleaned[2] = cleaned[1]

\* a name that cleanName changed, and not into the empty name, was cleaned twice
C19_Witness ==
    /\ Len(cleaned) = 2
    /\ cleaned[1] \notin {given, <<>>}

\* s has no dot, underscore, hyphen, bracket or parenthesis, no two spaces in
\* a row and no space (or tab) at either end or anywhere but single
WellFormed(s) ==
    /\ \A i \in 1..Len(s) : s[i] \notin {".", "_", "-", "[", "]", "(", ")", "\t"}
    /\ \A i \in 1..(Len(s) - 1) : ~(s[i] = " " /\ s[i + 1] = " ")
    /\ s # <<>> => s[1] # " " /\ s[Len(s)] # " "

MovieClean ==
    << "M", "o", "v", "i", "e", " ", "2", "0", "1", "0", " ", "1",
       "0", "8", "0", "p", " ", "B", "l", "u", "R", "a", "y", " ",
       "G", "R", "O", "U", "P" >>

C21_InaccessibleRootIsFatal ==
    [][\A c \in Callers :
          /\ (\/ pc[c] = "access_dl" /\ Stepped(c) /\ ~dlRootOk
              \/ pc[c] = "access_mv" /\ Stepped(c) /\ ~mvRootOk)
                => /\ pc'[c] = "done" /\ result'[c] = "error"
                   /\ folders'[c] = <<>> /\ organized'[c] = <<>> /\ errors'[c] = <<>>
                   /\ downloads' = downloads /\ movies' = movies
          /\ (op[c] = "organize" /\ (~dlRootOk \/ ~mvRootOk))
                => /\ pc[c] \in {"access_dl", "access_mv", "done"}
                   /\ pc[c] = "done" => result[c] = "error"]_vars

\* a run has thrown for /app/movies alone, with folders waiting in /app/downloads
C21_Witness ==
    \E c \in Callers :
       /\ op[c] = "organize" /\ pc[c] = "done" /\ result[c] = "error"
       /\ dlRootOk /\ ~mvRootOk
       /\ \A n \in DOMAIN downloads : downloads[n] = "full"

\* C22: a hash is in processedTorrents exactly when a fetched listing has
\* shown it with progress 1 and the run that selected it went on to call
\* organizeDownloads.
C22_ProcessedIffCompletedAndActed ==
    \A h \in Hashes :
       h \in processedTorrents <=> (h \in observedDone /\ h \in actedUpon)

\* between two runs: one hash was processed by a run whose organize step
\* threw, another is listed with progress below 1 and is not processed
C22_Witness ==
    /\ ~organizationRunning
    /\ lastTick = "organize_threw"
    /\ processedTorrents # {}
    /\ \E h \in Hashes : torrents[h] = "completing" /\ h \notin processedTorrents

\* the torrents the daemon files under completed
ListedCompleted == {h \in Hashes : torrents[h] \in {"completing", "done"}}

\* C23: when the list request of a run is answered, the run selects exactly
\* the listed torrents that have progress 1 and are not in processedTorrents;
\* these and no others enter processedTorrents, organizeDownloads is called
\* only when there is one, and a listed torrent with progress below 1 stays
\* out of processedTorrents.
C23_SelectsCompleteUnprocessed ==
    [][\A t \in Ticks :
          pc[t] = "list" /\ Stepped(t) /\ lastFetchSid' # NULL
             => LET chosen == {h \in ListedCompleted :
                                  torrents[h] = "done" /\ h \notin processedTorrents}
                IN  /\ processedTorrents' = processedTorrents \cup chosen
                    /\ chosen # {} => selected'[t] = chosen /\ pc'[t] = "access_dl"
                    /\ chosen = {} => pc'[t] = "idle" /\ organizeCalls'[t] = 0
                    /\ \A h \in ListedCompleted :
                          torrents[h] = "completing" /\ h \notin processedTorrents
                             => h \notin processedTorrents' /\ h \notin selected'[t]]_vars

\* a run selected a torrent while another one, listed with progress below 1,
\* was left unprocessed
C23_Witness ==
    \E t \in Ticks :
       /\ pc[t] = "access_dl" /\ selected[t] # {}
       /\ \E h \in Hashes : torrents[h] = "completing" /\ h \notin processedTorrents

\* the awaits inside organizeDownloads
\* C24: a run calls organizeDownloads once, in the step that selects its
\* torrents, however many they are, and not at all when it selects none or
\* when getTorrents throws.
C24_OrganizeOncePerRun ==
    [][\A t \in Ticks :
          /\ organizeCalls'[t] <= 1
          /\ organizeCalls'[t] > organizeCalls[t]
                => pc[t] = "list" /\ selected'[t] # {} /\ pc'[t] = "access_dl"
          /\ pc[t] = "list" /\ Stepped(t) /\ selected'[t] # {} => organizeCalls'[t] = 1
          /\ pc[t] \in {"login", "list"} => organizeCalls[t] = 0
          /\ pc[t] \in {"login", "list"} /\ pc'[t] = "idle" => organizeCalls'[t] = 0
          /\ pc[t] \in OrganizePcs \cup {"scan"} => organizeCalls[t] = 1 /\ selected[t] # {}]_vars

\* two torrents were selected by one run, which is inside its one call
C24_Witness ==
    \E t \in Ticks :
       /\ Cardinality(selected[t]) = 2
       /\ organizeCalls[t] = 1
       /\ pc[t] = "rm"

\* C25: a run asks for a library scan at most once, and only after
\* organizeDownloads returned with something organized; when the scan request
\* is answered or fails the run ends normally, with the guard cleared and
\* processedTorrents as it was.
C25_ScanOnlyAfterOrganized ==
    [][\A t \in Ticks :
          /\ scanReqs'[t] <= 1
          /\ scanReqs'[t] > scanReqs[t]
                => /\ pc[t] \in {"readdir", "access_dest", "cp", "rm"}
                   /\ Len(organized'[t]) > 0
                   /\ jellyfinService
                   /\ pc'[t] = "scan"
          /\ pc[t] = "scan" /\ Stepped(t)
                => /\ pc'[t] = "idle"
                   /\ result'[t] = "none"
                   /\ ~organizationRunning'
                   /\ processedTorrents' = processedTorrents
                   /\ scanReqs[t] = 1]_vars

\* the scan of a run failed and the guard is clear
C25_Witness ==
    /\ lastTick = "scan_failed"
    /\ ~organizationRunning
    /\ processedTorrents # {}

\* C26: a call of checkForCompletedTorrents that finds the guard set returns
\* at once: no request is sent, no activation starts or moves, the guard
\* stays set, processedTorrents, the directories and every result stay as
\* they were; and a run starts only while the guard is clear.
C26_OverlappingTickIsNoOp ==
    [][/\ lastTick' = "skipped" /\ lastTick # "skipped"
             => /\ organizationRunning /\ organizationRunning'
                /\ UNCHANGED <<svars, pvars, processedTorrents, torrents, selected,
                               organizeCalls, scanReqs, lastFetchSid, fvars>>
       /\ \A t \in Ticks :
             pc[t] = "idle" /\ pc'[t] # "idle" => ~organizationRunning /\ lastTick' = "running"]_vars

\* a tick was skipped while the active run awaits the answer to its list request
C26_Witness ==
    /\ lastTick = "skipped"
    /\ organizationRunning
    /\ \E t \in Ticks : pc[t] = "list" /\ listReqs[t] = 1

\* C27: a run of the monitor and a POST /organize request are never inside
\* organizeDownloads at the same time.
C27_GuardCoversForegroundOrganize ==
    \A t \in Ticks, c \in Callers : ~(pc[t] \in OrganizePcs /\ pc[c] \in OrganizePcs)

\* C28: while a torrent has progress below 1, no step removes its folder
\* from /app/downloads or copies it into /app/movies.
C28_OnlyCompletedMoved ==
    [][\A h \in Hashes :
          torrents[h] # "done"
             => /\ downloads'[FolderOf(h)] = downloads[FolderOf(h)]
                /\ \A e \in movies' \ movies : e[2] # FolderOf(h)]_vars

\* C29: a run that has set the guard clears it, provided every call it
\* awaits comes back.
C29_RunEnds == organizationRunning ~> ~organizationRunning

\* A run whose organizeDownloads threw is over and the guard is clear.
C29_Witness == lastTick = "organize_threw" /\ ~organizationRunning

\* C30: a call of organizeDownloads that begins after another has ended, the
\* directories being what that one left and the file system refusing again
\* what it refused, moves nothing, writes nothing into the library and
\* removes nothing from the downloads; the set of processed hashes plays no
\* part in it.
C30_SecondRunChangesNothing ==
    [][\A c \in Callers :
          (rerun[c] /\ Stepped(c) /\ ~(pc[c] \in {"cp", "rm"} /\ CurFolder(c) \in refused))
          => /\ downloads' = downloads
             /\ movies' = movies
             /\ Len(organized'[c]) <= Len(organized[c])
             /\ UNCHANGED processedTorrents]_vars

\* A later call is in its loop and has already skipped a folder, in a
\* library that holds a folder an earlier call moved there.
C30_Witness ==
    \E c \in Callers :
       /\ rerun[c]
       /\ pc[c] = "access_dest"
       /\ errors[c] # <<>>
       /\ \E e \in movies : e[2] # <<"lib">> /\ e[3] = "full"

\* C32: an item of the downloads directory that is a plain file stays as it
\* is, nothing of it gets into the library, and it appears in no list of
\* folders, organized items or errors of any call.
C32_RootFilesIgnored ==
    [][\A n \in FolderNames : downloads[n] = "file" =>
          /\ downloads'[n] = "file"
          /\ \A e \in movies' : e[2] # n
          /\ \A c \in Callers :
                /\ \A i \in 1..Len(folders'[c]) : folders'[c][i] # n
                /\ \A i \in 1..Len(organized'[c]) : organized'[c][i].original # n
                /\ \A i \in 1..Len(errors'[c]) : errors'[c][i].folder # n]_vars

\* A call has ended having moved a folder, with a plain file in the
\* downloads directory.
C32_Witness ==
    \E c \in Callers :
       /\ pc[c] = "done"
       /\ Len(organized[c]) > 0
       /\ \E n \in FolderNames : downloads[n] = "file"

\* C33: when the copy of a folder fails, nothing of the folder is left at its
\* destination, so that the destination is free for a later call.
C33_FailedCopyRolledBack ==
    [][\A c \in Callers :
          (pc[c] = "cp" /\ Stepped(c) /\ pc'[c] # "rm")
          => /\ \A e \in movies' : e[2] # CurFolder(c)
             /\ (CleanName(CurFolder(c)) # <<>>
                    => \A e \in movies' \ movies : e[1] # CleanName(CurFolder(c)))]_vars

\* Two folders of the downloads directory with one destination.
Collide(n, m) == n # m /\ CleanName(n) = CleanName(m)

\* Where the call of c has n in the list it read, and what it recorded for n.
PositionOf(c, n) == CHOOSE i \in 1..Len(folders[c]) : folders[c][i] = n
Relocated(c, n) == \E i \in 1..Len(organized[c]) : organized[c][i].original = n
Skipped(c, n) == \E i \in 1..Len(errors[c]) : errors[c][i] = SkipEntry(n)
Failed(c, n) == \E i \in 1..Len(errors[c]) : errors[c][i].folder = n
Merged(n, m) == \E e, f \in movies : e[1] = f[1] /\ e[2] = n /\ f[2] = m

\* C37 as stated: of two folders with one destination a call relocates at most
\* one, records the other with 'Destination already exists' and leaves its
\* source as it was, and the two are never merged at the destination.
C37_CollisionOtherSkipped ==
    \A c \in Callers : pc[c] = "done" /\ result[c] = "ok" =>
       \A n, m \in {folders[c][i] : i \in 1..Len(folders[c])} :
          Collide(n, m) =>
             /\ ~(Relocated(c, n) /\ Relocated(c, m))
             /\ ~Merged(n, m)
             /\ (Relocated(c, n) => Skipped(c, m) /\ downloads[m] = "full")

\* C37, amended: of two folders with one destination a call relocates at most
\* one and never merges them; the other is recorded in errors with its source
\* as it was, with 'Destination already exists' whenever the loop reached it
\* after the one that was relocated.
C37_CollisionOtherNotMoved ==
    \A c \in Callers : pc[c] = "done" /\ result[c] = "ok" =>
       \A n, m \in {folders[c][i] : i \in 1..Len(folders[c])} :
          Collide(n, m) =>
             /\ ~(Relocated(c, n) /\ Relocated(c, m))
             /\ ~Merged(n, m)
             /\ (Relocated(c, n) =>
                   /\ Failed(c, m)
                   /\ downloads[m] = "full"
                   /\ (PositionOf(c, m) > PositionOf(c, n) => Skipped(c, m)))

\* A call has relocated one of two folders with one destination and skipped
\* the other.
C37_Witness ==
    \E c \in Callers : \E n, m \in FolderNames :
       /\ pc[c] = "done"
       /\ Collide(n, m)
       /\ Relocated(c, n)
       /\ Skipped(c, m)

\* A name made only of dots, underscores, hyphens, brackets, parentheses
\* and whitespace.
OnlyPunctuation(name) ==
    \A i \in 1..Len(name) : name[i] \in Separators \cup Brackets \cup Whitespace

\* C38: a name made only of punctuation and whitespace cleans to the empty
\* name, and a folder whose name cleans to the empty name is never copied
\* or removed: the call records it with 'Destination already exists' and
\* leaves both directories as they were.
C38_EmptyNameNeverCopied ==
    [][/\ OnlyPunctuation(given) => CleanName(given) = <<>>
       /\ CleanName(given) = <<>> =>
             /\ movies' = movies
             /\ downloads' = downloads
             /\ pc'[FirstCaller] \notin {"cp", "rm"}
             /\ (pc[FirstCaller] = "access_dest" /\ Stepped(FirstCaller))
                   => /\ errors'[FirstCaller] = <<SkipEntry(given)>>
                      /\ organized'[FirstCaller] = <<>>
                      /\ pc'[FirstCaller] = "done"
                      /\ result'[FirstCaller] = "ok"]_vars

\* The call has returned with the folder of an empty clean name skipped and
\* still in the downloads directory.
C38_Witness ==
    /\ CleanName(given) = <<>>
    /\ pc[FirstCaller] = "done"
    /\ errors[FirstCaller] = <<SkipEntry(given)>>
    /\ downloads[given] = "full"

\* The positions of the answer's results whose size is within the limits,
\* and those among them that were not returned.
InBand == {i \in 1..Len(RawResults) : SizeWithinLimits(RawResults[i])}
LeftOut == InBand \ {rankedFrom[j] : j \in 1..Len(rankedFrom)}

\* C34: the returned array is the first ten of the results within the limits
\* in stable descending order of seeders: as many as there are, up to ten,
\* and every such result left out has no more seeders than any returned one
\* and, with the same seeders, comes later in the answer.
C34_TruncatedAfterSort ==
    searchPc = "returned" =>
       /\ Len(rankedFrom) = (IF Cardinality(InBand) < 10 THEN Cardinality(InBand) ELSE 10)
       /\ \A j \in 1..Len(rankedFrom) : rankedFrom[j] \in InBand
       /\ \A i \in LeftOut : \A j \in 1..Len(rankedFrom) :
             /\ Seeders(RawResults[i]) <= Seeders(RawResults[rankedFrom[j]])
             /\ Seeders(RawResults[i]) = Seeders(RawResults[rankedFrom[j]]) => rankedFrom[j] < i

\* Eleven results were within the limits, the last with the most seeders: it
\* was returned first and one of the others was left out.
C34_Witness ==
    /\ searchPc = "returned"
    /\ Len(RawResults) = 11
    /\ Len(rankedFrom) = 10
    /\ rankedFrom[1] = 11
    /\ LeftOut = {10}

\* C39: a 401/403 on the add request clears this.sessionId and sends a login
\* request; when that login fails, addTorrent throws to its caller, sends no
\* further add request or login request and stores no session id.
C39_FailedReloginPropagates ==
    [][\A c \in Callers :
          /\ (pc[c] = "add" /\ lastResp'[c] = "auth")
                => /\ sessionId' = NULL
                   /\ pc'[c] = "login"
                   /\ addReqs'[c] = addReqs[c]
          /\ (op[c] = "addTorrent" /\ pc[c] = "login" /\ addReqs[c] >= 1 /\ lastResp'[c] = "err")
                => /\ pc'[c] = "done" /\ result'[c] = "error"
                   /\ addReqs'[c] = addReqs[c]
                   /\ loginReqs'[c] = loginReqs[c]
                   /\ sessionId' = sessionId]_vars

\* A call of addTorrent has thrown after one add request answered 401/403
\* and a failed login, and no session id is stored.
C39_Witness ==
    \E c \in Callers :
       /\ op[c] = "addTorrent" /\ pc[c] = "done" /\ result[c] = "error"
       /\ addReqs[c] = 1 /\ loginReqs[c] = 1
       /\ lastResp[c] = "err"
       /\ sessionId = NULL

C31_GateRefuses ==
    (/\ req.route \in Routes \ {"GET /"}
     /\ PasswordOf(req) # API_PASSWORD
     /\ apiPc # "received")
        => /\ apiPc = "answered"
           /\ status = 401
           /\ coreCalls = <<>>
           /\ searchPc = "idle"

C31_Witness ==
    /\ req.route = "POST /organize"
    /\ req.query = "guess"
    /\ req.body = Undefined
    /\ apiPc = "answered"
    /\ status = 401

\* ---------------------------------------------------------------- C35
TimesCalled(operation) == Cardinality({i \in DOMAIN coreCalls : coreCalls[i] = operation})

\* C35: POST /search-download calls addTorrent at most once, only when the
\* service exists and the ranked list is not empty, and then with the magnet
\* link of its first element, which is there; the answer of POST /search
\* names that same first element as wouldDownload, or none when the list is
\* empty, and calls addTorrent never.
C35_OnlyTopHandedOnce ==
    /\ req.route = "POST /search-download"
          => /\ TimesCalled("addTorrent") <= 1
             /\ TimesCalled("addTorrent") = 1
                   => /\ qbittorrentService
                      /\ Len(ranked) > 0
                      /\ ranked[1].magnetLink # Undefined
                      /\ handed = ranked[1].magnetLink
    /\ (req.route = "POST /search" /\ apiPc = "answered" /\ status = 200)
          => /\ TimesCalled("addTorrent") = 0
             /\ wouldDownload = IF Len(ranked) > 0 THEN <<ranked[1]>> ELSE <<>>

C35_Witness ==
    /\ req.route = "POST /search-download"
    /\ apiPc = "answered"
    /\ coreCalls = <<"searchJackett", "addTorrent">>
    /\ Len(ranked) = 2
    /\ ranked[2].magnetLink # ranked[1].magnetLink
    /\ handed = ranked[1].magnetLink

====
